---------------------------- MODULE Spec2Model ----------------------------
(***************************************************************************)
(* A model of the scan-position correction subsystem of tike               *)
(* (src/tike/ptycho/position.py, src/tike/ptycho/solvers/options.py).       *)
(*                                                                         *)
(* Numbers.  The code works on float32/float64 arrays.  The model uses     *)
(* exact rationals: a scan is a record [den, pos] whose positions are the  *)
(* integer numerators pos[i] = <<y, x>> over the common denominator den,   *)
(* so that means, floors and comparisons are computed without rounding.    *)
(***************************************************************************)
EXTENDS Integers, Sequences, FiniteSets, TLC

(***************************************************************************)
(* Bounds of the model.                                                    *)
(***************************************************************************)
MaxN == 2          \* largest number of scan positions of a PtychoParameters
MaxCoord == 5      \* scan coordinates of a new PtychoParameters: 0..MaxCoord

VARIABLES
    pd_pc,         \* position of the driver: "new", "invalid", "constructed",
                   \* "returned", "raised"
    params,        \* the PtychoParameters under construction / constructed
    pd_call,       \* the arguments of the update_positions_pd call, as a set
    pd_checked,    \* the scans handed to check_allowed_positions by the call
    pd_cost_at,    \* the scans at which operator.cost was evaluated
    pd_result,     \* the (scan, cost) pairs returned by the call
    rs_pc,         \* estimate_global_transformation_ransac: "idle", "loop",
                   \* "done"
    rs_args,       \* the arguments of the call, as a set
    rs_i,          \* the number of subsets consumed by the loop
    rs_transform,  \* the local variable transform
    rs_best,       \* the local variable best_fitness
    rs_last,       \* the record of the last pass of the loop body, as a set
    rs_seen,       \* whether some pass of this call reached consensus
    rs_result,     \* the (transform, cost) pairs returned by the call
    po_parent,     \* the PositionOptions of the session (host)
    po_shard,      \* per device: the PositionOptions split off for it with
                   \* the indices it was split along, as a set (empty: none)
    po_last,       \* the last call on a PositionOptions, as a set
    pr_pc,         \* position of the caller of a probe function: "idle",
                   \* "map1", "reduce1", "map2", "reduce2", "map3",
                   \* "returned", "raised"
    pr_call,       \* the function called and its arguments, as a set
    pr_dev,        \* per device: the arrays it holds and its progress
    pr_red,        \* the values handed back by the reductions so far
    pr_out,        \* what the call returned or raised, as a set
    fn_call,       \* the call of a function without state: its name and its
                   \* arguments, as a set
    fn_out,        \* what that call returned, as a set
    ss_pc,         \* the varying probe of a reconstruction: "none" before
                   \* init_varying_probe, "ready", "raised"
    ss_call,       \* the arguments init_varying_probe was called with, as a set
    ss_eigen_probe,
                   \* per device: its copy of the eigen probes
    ss_weights,    \* per device: the weights of its scan positions
    ss_trace,      \* the functions called on the arrays since, in order
    ss_last,       \* the record of the last constrain_variable_probe, as a set
    sr_pc,         \* stream_and_reduce: "idle", "loop", "synchronize", "sum",
                   \* "returned"
    sr_call,       \* the arguments of the call and its locals N, chunk_size
                   \* and num_streams, as a set
    sr_s,          \* the number of chunks the loop has issued
    sr_queue,      \* per stream: the work issued to it and not yet finished
    sr_buf,        \* args_gpu: the staging buffer on the device
    sr_sums,       \* y_sums: one accumulator per stream
    sr_writes,     \* the staging regions and accumulator slots written, with
                   \* the stream that wrote and the chunk it wrote
    sr_passed,     \* the values f has received, in the order received
    sr_out         \* what the call returned, as a set

pd_vars == <<pd_pc, params, pd_call, pd_checked, pd_cost_at, pd_result>>

rs_vars == <<rs_pc, rs_args, rs_i, rs_transform, rs_best, rs_last, rs_seen,
             rs_result>>

po_vars == <<po_parent, po_shard, po_last>>

pr_vars == <<pr_pc, pr_call, pr_dev, pr_red, pr_out>>

fn_vars == <<fn_call, fn_out>>

ss_vars == <<ss_pc, ss_call, ss_eigen_probe, ss_weights, ss_trace, ss_last>>

sr_vars == <<sr_pc, sr_call, sr_s, sr_queue, sr_buf, sr_sums, sr_writes,
             sr_passed, sr_out>>

vars == <<pd_vars, rs_vars, po_vars, pr_vars, fn_vars, ss_vars, sr_vars>>

---------------------------------------------------------------------------
(***************************************************************************)
(* Array helpers.                                                          *)
(***************************************************************************)
\* the array f (a function on 1..n) as a sequence
Arr(f) == SubSeq(f, 1, Len(f))

RECURSIVE SumAxis(_, _)
\* np.sum(pos[..., a]) over the position axis
SumAxis(pos, a) ==
    IF pos = <<>> THEN 0 ELSE Head(pos)[a] + SumAxis(Tail(pos), a)

\* np.mean(scan, axis=-2, keepdims=True) as the rational v / den
mean(scan) ==
    [den |-> scan.den * Len(scan.pos),
     v   |-> <<SumAxis(scan.pos, 1), SumAxis(scan.pos, 2)>>]

\* scan // 1 : the floor of every coordinate
int_scan(scan) ==
    [i \in 1..Len(scan.pos) |->
        <<scan.pos[i][1] \div scan.den, scan.pos[i][2] \div scan.den>>]

---------------------------------------------------------------------------
(***************************************************************************)
(* check_allowed_positions(scan, psi, probe_shape): TRUE iff it raises     *)
(* ValueError.  psi and probe are given by their last two dimensions.      *)
(***************************************************************************)
less_than_one(scan) ==
    [i \in 1..Len(scan.pos) |->
        <<int_scan(scan)[i][1] < 1, int_scan(scan)[i][2] < 1>>]

greater_than_psi(scan, psi, probe) ==
    [i \in 1..Len(scan.pos) |->
        <<int_scan(scan)[i][1] >= psi[1] - probe[1],
          int_scan(scan)[i][2] >= psi[2] - probe[2]>>]

check_allowed_positions(scan, psi, probe) ==
    \/ \E i \in 1..Len(scan.pos) : \E ax \in 1..2 : less_than_one(scan)[i][ax]
    \/ \E i \in 1..Len(scan.pos) : \E ax \in 1..2 :
          greater_than_psi(scan, psi, probe)[i][ax]

(***************************************************************************)
(* PtychoParameters.__post_init__: TRUE iff it raises ValueError.          *)
(***************************************************************************)
post_init_raises(scan, psi, probe) ==
    \/ Len(scan.pos) < 1                      \* scan shape is not (N >= 1, 2)
    \/ probe[1] # probe[2]                    \* the probe grid is not square
    \/ psi[1] <= probe[1] \/ psi[2] <= probe[2]
    \/ check_allowed_positions(scan, psi, probe)

---------------------------------------------------------------------------
(***************************************************************************)
(* update_positions_pd, lines 462-471.  grad is the per-position least     *)
(* squares shift (line 457), an output of the forward model and of         *)
(* tike.linalg.lstsq; step is the rational step.num / step.den.            *)
(***************************************************************************)
\* line 464: scan = scan - step * grad
pd_stepped(scan, grad, step) ==
    [den |-> scan.den * step.den,
     pos |-> [i \in 1..Len(scan.pos) |->
                <<scan.pos[i][1] * step.den - step.num * grad[i][1] * scan.den,
                  scan.pos[i][2] * step.den - step.num * grad[i][2] * scan.den>>]]

\* mutant: the re-centring applied with the wrong sign
pd_recentred_swapped(scan, center0, center1) ==
    [den |-> scan.den * center0.den * center1.den,
     pos |-> [i \in 1..Len(scan.pos) |->
                [ax \in 1..2 |->
                    scan.pos[i][ax] * center0.den * center1.den
                    - center0.v[ax] * scan.den * center1.den
                    + center1.v[ax] * scan.den * center0.den]]]

\* line 466: scan = scan + (center0 - center1)
pd_recentred(scan, center0, center1) ==
    [den |-> scan.den * center0.den * center1.den,
     pos |-> [i \in 1..Len(scan.pos) |->
                [ax \in 1..2 |->
                    scan.pos[i][ax] * center0.den * center1.den
                    + center0.v[ax] * scan.den * center1.den
                    - center1.v[ax] * scan.den * center0.den]]]

\* mutant: the candidate scan without the re-centring
pd_candidate_drifting(scan, grad, step) == pd_stepped(scan, grad, step)

\* lines 463-466: the candidate scan of the call
pd_candidate(scan, grad, step) ==
    LET center0 == mean(scan)
        stepped == pd_stepped(scan, grad, step)
        center1 == mean(stepped)
    IN  pd_recentred(stepped, center0, center1)

\* mutant: the bounds check applied before the re-centring
pd_checked_scan_stepped(scan, grad, step) == pd_stepped(scan, grad, step)

\* line 468: the scan handed to check_allowed_positions
pd_checked_scan(scan, grad, step) == pd_candidate(scan, grad, step)

\* line 469: operator.cost(data, psi, scan, probe), an opaque scalar of the
\* forward model; the model keeps the scan it was evaluated at
cost(scan) == [cost_at |-> scan]

---------------------------------------------------------------------------
(***************************************************************************)
(* AffineTransform, lines 17-68.  The parameters are integers; the angle   *)
(* counts quarter turns, for which cos and sin are integers.               *)
(***************************************************************************)
Identity ==
    [t0 |-> 0, t1 |-> 0, scale0 |-> 1, scale1 |-> 1, angle |-> 0, shear |-> 0]

cos(angle) == CASE angle % 4 = 0 -> 1  [] angle % 4 = 1 -> 0
                [] angle % 4 = 2 -> -1 [] OTHER -> 0

sin(angle) == CASE angle % 4 = 0 -> 0  [] angle % 4 = 1 -> 1
                [] angle % 4 = 2 -> 0  [] OTHER -> -1

\* the matrix product A @ B of two 2x2 matrices
MatMul(A, B) ==
    <<<<A[1][1] * B[1][1] + A[1][2] * B[2][1],
        A[1][1] * B[1][2] + A[1][2] * B[2][2]>>,
      <<A[2][1] * B[1][1] + A[2][2] * B[2][1],
        A[2][1] * B[1][2] + A[2][2] * B[2][2]>>>>

\* AffineTransform.asarray: scale @ rotation @ shear
asarray(T) ==
    MatMul(MatMul(<<<<T.scale0, 0>>, <<0, T.scale1>>>>,
                  <<<<cos(T.angle), sin(T.angle)>>,
                    <<-sin(T.angle), cos(T.angle)>>>>),
           <<<<1, 0>>, <<T.shear, 1>>>>)

\* AffineTransform.__call__ on an array x of points:
\* (x + (t0, t1)) @ asarray()
RowTimes(v, M) ==
    <<v[1] * M[1][1] + v[2] * M[2][1], v[1] * M[1][2] + v[2] * M[2][2]>>

\* mutant: the translation added after the matrix is applied
AffineTransform_call_after(T, x) ==
    LET M == asarray(T)
    IN  Arr([i \in 1..Len(x) |->
            <<RowTimes(x[i], M)[1] + T.t0, RowTimes(x[i], M)[2] + T.t1>>])

AffineTransform_call(T, x) ==
    LET M == asarray(T)
    IN  Arr([i \in 1..Len(x) |-> RowTimes(<<x[i][1] + T.t0, x[i][2] + T.t1>>, M)])

---------------------------------------------------------------------------
(***************************************************************************)
(* estimate_global_transformation, lines 71-91.  A cost is the rational    *)
(* num / den; np.inf is 1 / 0.  scipy.optimize.least_squares is modelled   *)
(* as an exact minimiser over the lattice of transforms Lattice, which     *)
(* stays at its initial guess when that is already a minimiser.            *)
(***************************************************************************)
Inf == [num |-> 1, den |-> 0]

CostLess(a, b) == a.num * b.den < b.num * a.den

RECURSIVE SeqSum(_)
SeqSum(w) == IF w = <<>> THEN 0 ELSE Head(w) + SeqSum(Tail(w))

\* numpy broadcasting of weights (a scalar or one weight per position)
Broadcast(weights, i) == IF Len(weights) = 1 THEN weights[1] ELSE weights[i]

\* the squared Euclidean norms of the rows of q - positions1
Sq(v) == v[1] * v[1] + v[2] * v[2]

SqNorm(q, positions1) ==
    Arr([i \in 1..Len(positions1) |->
            Sq(<<q[i][1] - positions1[i][1], q[i][2] - positions1[i][2]>>)])

RECURSIVE WeightedSum(_, _, _)
WeightedSum(sq, weights, i) ==
    IF i > Len(sq) THEN 0
    ELSE Broadcast(weights, i) * sq[i] + WeightedSum(sq, weights, i + 1)

\* result.cost of least_squares at T: half the sum of the squared
\* residuals sqrt(weights / np.sum(weights)) * (T(positions0) - positions1)
lsq_cost(T, positions0, positions1, weights) ==
    [num |-> WeightedSum(SqNorm(AffineTransform_call(T, positions0), positions1),
                         weights, 1),
     den |-> 2 * SeqSum(weights)]

Translations == {0, 1}
Scales == {1}
Lattice ==
    {[t0 |-> a, t1 |-> b, scale0 |-> c, scale1 |-> 1, angle |-> 0, shear |-> 0]
        : a \in Translations, b \in Translations, c \in Scales}

\* the (transform, cost) pairs the call may return
estimate_global_transformation(positions0, positions1, weights, transform) ==
    LET Costs == {[transform |-> T,
                   cost |-> lsq_cost(T, positions0, positions1, weights)]
                    : T \in Lattice \cup {transform}}
        Best == {r \in Costs : \A u \in Costs : u.cost.num >= r.cost.num}
    IN  IF \E r \in Best : r.transform = transform
        THEN {r \in Best : r.transform = transform}
        ELSE Best

---------------------------------------------------------------------------
(***************************************************************************)
(* estimate_global_transformation_ransac, lines 94-148.  Indices count     *)
(* from 1.  min_consensus is the rational num / den.                       *)
(***************************************************************************)
\* positions[subset] for an index array
Select(positions, subset) ==
    Arr([k \in 1..Len(subset) |-> positions[subset[k]]])

RECURSIVE MaskIdx(_, _)
\* the indices selected by a boolean mask, in increasing order
MaskIdx(mask, i) ==
    IF i > Len(mask) THEN <<>>
    ELSE (IF mask[i] THEN <<i>> ELSE <<>>) \o MaskIdx(mask, i + 1)

\* lines 126 and 141: the weights handed to both least-squares fits
ransac_fit_weights(weights, idx) == <<1>>

\* mutant: an inlier lies strictly inside max_error
inliars_strict(candidate_model, positions0, positions1, max_error) ==
    LET position_error2 ==
            SqNorm(AffineTransform_call(candidate_model, positions0), positions1)
    IN  Arr([i \in 1..Len(positions0) |->
                position_error2[i] < max_error * max_error])

\* lines 130-134: inliars = (position_error <= max_error)
inliars(candidate_model, positions0, positions1, max_error) ==
    LET position_error2 ==
            SqNorm(AffineTransform_call(candidate_model, positions0), positions1)
    IN  Arr([i \in 1..Len(positions0) |->
                position_error2[i] <= max_error * max_error])

\* line 136: np.sum(inliars) / len(inliars) >= min_consensus
consensus(mask, min_consensus) ==
    Len(MaskIdx(mask, 1)) * min_consensus.den >= min_consensus.num * Len(mask)


\* lines 139-140: positions0[inliars], positions1[inliars]
refit_indices(mask) == MaskIdx(mask, 1)

\* mutant: a refit that only ties the best fitness replaces it
improves_or_ties(fitness, best_fitness) == ~CostLess(best_fitness, fitness)

\* line 144: fitness < best_fitness
improves(fitness, best_fitness) == CostLess(fitness, best_fitness)

\* mutant: the candidate replaces the transform outside the consensus test
kept_transform_candidate(transform, candidate_model) == candidate_model

\* the transform left in `transform` by an iteration that does not reach
\* line 147
kept_transform(transform, candidate_model) == transform

\* mutant: the refit starts from the best transform so far
refit_seed_transform(transform, candidate_model) == transform

\* line 142: the refit is called with transform=candidate_model
refit_seed(transform, candidate_model) == candidate_model

\* one pass of the loop body, lines 122-147, for one subset: the records of
\* the iterations it may perform
ransac_iteration(transform, best_fitness, a, subset) ==
    LET w1 == ransac_fit_weights(a.weights, subset)
        rec(fit1, mask, idx, refit, w) ==
            [subset |-> subset, refit_idx |-> idx, seed |-> transform, best_before |-> best_fitness,
             candidate |-> fit1.transform, inliars |-> mask,
             refit |-> refit, fits |-> w,
             transform |->
                IF \E f \in refit : improves(f.cost, best_fitness)
                THEN (CHOOSE f \in refit : TRUE).transform
                ELSE kept_transform(transform, fit1.transform),
             best_fitness |->
                IF \E f \in refit : improves(f.cost, best_fitness)
                THEN (CHOOSE f \in refit : TRUE).cost
                ELSE best_fitness]
    IN  UNION {
          LET mask == inliars(fit1.transform, a.positions0, a.positions1,
                              a.max_error)
              idx == refit_indices(mask)
              w2 == ransac_fit_weights(a.weights, idx)
          IN  IF consensus(mask, a.min_consensus)
              THEN {rec(fit1, mask, idx, {fit2},
                        {[n |-> Len(subset), weights |-> w1],
                         [n |-> Len(idx), weights |-> w2]}) :
                      fit2 \in estimate_global_transformation(
                                  Select(a.positions0, idx),
                                  Select(a.positions1, idx),
                                  w2, refit_seed(transform, fit1.transform))}
              ELSE {rec(fit1, mask, <<>>, {},
                        {[n |-> Len(subset), weights |-> w1]})}
          : fit1 \in estimate_global_transformation(
                        Select(a.positions0, subset),
                        Select(a.positions1, subset),
                        w1, transform)}

\* the loop states after one more subset, from the loop states S; a loop
\* state is (transform, best_fitness) with the history of the call: seen
\* (some pass reached consensus) and fits (the number of position pairs and
\* the weights handed to each least-squares fit)
ransac_pass(S, a) ==
    UNION {
      {[transform |-> it.transform, best_fitness |-> it.best_fitness,
        seen |-> st.seen \/ it.refit # {}, fits |-> st.fits \cup it.fits]
        : it \in ransac_iteration(st.transform, st.best_fitness, a, subset)}
      : st \in S, subset \in [1..a.min_sample -> 1..Len(a.positions0)]}

RECURSIVE ransac_run(_, _, _)
\* the loop states after k more subsets.  The next set of loop states is a
\* function of the current set, so a set that repeats is the final set.
ransac_run(S, a, k) ==
    IF k = 0 THEN S
    ELSE LET S1 == ransac_pass(S, a)
         IN  IF S1 = S THEN S ELSE ransac_run(S1, a, k - 1)

\* lines 115-148 as a whole: the outcomes of a call over every draw of
\* tike.opt.randomizer.choice
estimate_global_transformation_ransac(a) ==
    ransac_run({[transform |-> a.transform, best_fitness |-> Inf,
                 seen |-> FALSE, fits |-> {}]}, a, a.max_iter)

---------------------------------------------------------------------------
(***************************************************************************)
(* PositionOptions, lines 151-322.  _momentum is a set: empty when the     *)
(* object has no such attribute (use_adaptive_moment is False).            *)
(***************************************************************************)
\* the dataclass constructor with the defaults of lines 159-184, followed
\* by __post_init__, lines 187-198
PositionOptions(initial_scan, use_adaptive_moment, vdecay, mdecay, use_position_regularization, transform) ==
    [initial_scan |-> initial_scan,
     use_adaptive_moment |-> use_adaptive_moment,
     vdecay |-> vdecay,
     mdecay |-> mdecay,
     use_position_regularization |-> use_position_regularization,
     penalty_weight |-> 0,
     penalty_variance |-> 1,
     transform |-> transform,
     confidence |-> Arr([i \in 1..Len(initial_scan) |-> <<1>>]),
     momentum |-> IF use_adaptive_moment
                  THEN {Arr([i \in 1..Len(initial_scan) |-> <<0, 0, 0, 0>>])}
                  ELSE {}]

\* mutant: the momentum of the shard is cut by length, not taken at indices
split_momentum_head(self, indices) ==
    [PositionOptions(Select(self.initial_scan, indices),
                     self.use_adaptive_moment, self.vdecay, self.mdecay,
                     self.use_position_regularization, self.transform)
     EXCEPT !.confidence = Select(self.confidence, indices),
            !.momentum = {SubSeq(m, 1, Len(indices)) : m \in self.momentum}]

\* PositionOptions.split, lines 239-253
split(self, indices) ==
    [PositionOptions(Select(self.initial_scan, indices),
                     self.use_adaptive_moment, self.vdecay, self.mdecay,
                     self.use_position_regularization, self.transform)
     EXCEPT !.confidence = Select(self.confidence, indices),
            !.momentum = {Select(m, indices) : m \in self.momentum}]

\* PositionOptions.empty, lines 226-237
empty(self) ==
    PositionOptions(<<>>, self.use_adaptive_moment, self.vdecay, self.mdecay,
                    self.use_position_regularization, self.transform)

RECURSIVE Assign(_, _, _, _)
\* array[..., indices, :] = values, written in the order of indices
Assign(array, indices, values, k) ==
    IF k > Len(indices) THEN array
    ELSE Assign([array EXCEPT ![indices[k]] = values[k]], indices, values, k + 1)

\* PositionOptions.insert, lines 255-262
insert(self, other, indices) ==
    [self EXCEPT
        !.initial_scan = Assign(self.initial_scan, indices, other.initial_scan, 1),
        !.confidence = Assign(self.confidence, indices, other.confidence, 1),
        !.momentum = {Assign(m, indices, om, 1) :
                        m \in self.momentum, om \in other.momentum}]

RECURSIVE MaxOf(_)
MaxOf(indices) ==
    IF Len(indices) = 1 THEN indices[1]
    ELSE LET m == MaxOf(Tail(indices))
         IN  IF Head(indices) > m THEN Head(indices) ELSE m

\* np.empty of max_index rows with the first rows of array copied in; the
\* rows beyond array keep what the allocation held: uninit[i]
Grown(array, max_index, uninit) ==
    Arr([i \in 1..max_index |-> IF i <= Len(array) THEN array[i] ELSE uninit[i]])

\* mutant: the rows of other are added after the rows of self
join_appended(self, other, indices, uninit) ==
    [self EXCEPT
        !.initial_scan = self.initial_scan \o other.initial_scan,
        !.confidence = self.confidence \o other.confidence,
        !.momentum = {m \o om : m \in self.momentum, om \in other.momentum}]

\* PositionOptions.join, lines 264-291; uninit gives, per attribute, the
\* rows found in the memory handed out by np.empty
join(self, other, indices, uninit) ==
    LET len_scan == Len(self.initial_scan)
        max_index == IF MaxOf(indices) > len_scan THEN MaxOf(indices) ELSE len_scan
    IN  [self EXCEPT
            !.initial_scan =
                Assign(Grown(self.initial_scan, max_index, uninit.initial_scan),
                       indices, other.initial_scan, 1),
            !.confidence =
                Assign(Grown(self.confidence, max_index, uninit.confidence),
                       indices, other.confidence, 1),
            !.momentum =
                {Assign(Grown(m, max_index, uninit.momentum), indices, om, 1) :
                    m \in self.momentum, om \in other.momentum}]

\* np.pad(array, ((0, n), (0, 0)), mode='constant', constant_values=row)
Pad(array, n, row) == array \o Arr([i \in 1..n |-> row])

\* PositionOptions.append, lines 200-224
append(self, new_scan) ==
    [self EXCEPT
        !.initial_scan = self.initial_scan \o new_scan,
        !.confidence = Pad(self.confidence, Len(new_scan), <<1>>),
        !.momentum = {Pad(m, Len(new_scan), <<0, 0, 0, 0>>) : m \in self.momentum}]

\* initial_scan * factor
Scaled(initial_scan, factor) ==
    Arr([i \in 1..Len(initial_scan) |->
            <<initial_scan[i][1] * factor, initial_scan[i][2] * factor>>])

\* PositionOptions.resample, lines 311-322: the object built in the local
\* variable new, and what the call returns.  The body ends after the
\* constructor call, so the call returns None: the empty set here.
resample_new(self, factor) ==
    [PositionOptions(Scaled(self.initial_scan, factor),
                     self.use_adaptive_moment, self.vdecay, self.mdecay,
                     self.use_position_regularization, self.transform)
     EXCEPT !.confidence = self.confidence]

resample(self, factor) == {}

\* the setter of PositionOptions.v, lines 360-362:
\* self._momentum[..., 0:2] = x, for a scalar x
set_v(self, x) ==
    [self EXCEPT
        !.momentum = {Arr([i \in 1..Len(m) |-> <<x, x, m[i][3], m[i][4]>>]) :
                        m \in self.momentum}]

\* mutant: the RANSAC call is not seeded with the stored transform
regularization_call_unseeded(original, updated, position_options, max_error) ==
    [positions0 |-> original,
     positions1 |-> updated,
     weights |-> position_options.confidence,
     transform |-> Identity,
     min_sample |-> 3,
     max_error |-> max_error,
     min_consensus |-> [num |-> 3, den |-> 4],
     max_iter |-> 20]

\* affine_position_regularization, lines 543-553: the arguments of the
\* RANSAC call; min_sample, min_consensus and max_iter keep their defaults
DefaultMinSample == 3
DefaultMaxIter == 20
DefaultMinConsensus == [num |-> 3, den |-> 4]

regularization_call(original, updated, position_options, max_error) ==
    [positions0 |-> original,
     positions1 |-> updated,
     weights |-> position_options.confidence,
     transform |-> position_options.transform,
     min_sample |-> DefaultMinSample,
     max_error |-> max_error,
     min_consensus |-> DefaultMinConsensus,
     max_iter |-> DefaultMaxIter]

\* line 550: position_options.transform = X
affine_position_regularization(position_options, X) ==
    [position_options EXCEPT !.transform = X]

---------------------------------------------------------------------------
(***************************************************************************)
(* Inputs of the position-update specification.                            *)
(***************************************************************************)
PsiShapes == {<<7, 8>>, <<2, 8>>}       \* psi.shape[-2:]
ProbeShapes == {<<2, 2>>, <<2, 3>>}     \* probe.shape[-2:]
GradSet == {<<0, 0>>, <<20, 0>>, <<-10, 20>>}
StepSet == {[num |-> 1, den |-> 20], [num |-> 1, den |-> 10]}
Coords == 0..MaxCoord
\* scans of 0..MaxN positions: the first anywhere on the grid, the others
\* on its diagonal
Diagonal == {<<c, c>> : c \in Coords}
NewScans ==
    {[den |-> 1, pos |-> <<>>]}
    \cup UNION {{[den |-> 1, pos |-> <<p>> \o t] :
                    p \in Coords \X Coords, t \in [1..(n - 1) -> Diagonal]}
                : n \in 1..MaxN}

PdIdle ==
    /\ pd_pc = "new"
    /\ params = {}
    /\ pd_call = {}
    /\ pd_checked = {}
    /\ pd_cost_at = {}
    /\ pd_result = {}

RsIdle ==
    /\ rs_pc = "idle"
    /\ rs_args = {}
    /\ rs_i = 0
    /\ rs_transform = Identity
    /\ rs_best = Inf
    /\ rs_last = {}
    /\ rs_seen = FALSE
    /\ rs_result = {}

PoIdle ==
    /\ po_parent = PositionOptions(<<>>, FALSE, <<999, 1000>>, <<9, 10>>, FALSE,
                                   Identity)
    /\ po_shard = <<>>
    /\ po_last = {}

PrIdle ==
    /\ pr_pc = "idle"
    /\ pr_call = {}
    /\ pr_dev = <<>>
    /\ pr_red = <<>>
    /\ pr_out = {}

FnIdle ==
    /\ fn_call = {}
    /\ fn_out = {}

SsIdle ==
    /\ ss_pc = "none"
    /\ ss_call = {}
    /\ ss_eigen_probe = <<>>
    /\ ss_weights = <<>>
    /\ ss_trace = <<>>
    /\ ss_last = {}

SrIdle ==
    /\ sr_pc = "idle"
    /\ sr_call = {}
    /\ sr_s = 0
    /\ sr_queue = <<>>
    /\ sr_buf = <<>>
    /\ sr_sums = <<>>
    /\ sr_writes = {}
    /\ sr_passed = <<>>
    /\ sr_out = {}

InitPD == PdIdle /\ RsIdle /\ PoIdle /\ PrIdle /\ FnIdle /\ SsIdle /\ SrIdle

\* PtychoParameters(scan=..., psi=..., probe=...): the dataclass constructor
\* followed by __post_init__
PtychoParameters ==
    /\ pd_pc = "new"
    /\ \E scan \in NewScans, psi \in PsiShapes, probe \in ProbeShapes :
          /\ pd_pc' = IF post_init_raises(scan, psi, probe)
                      THEN "invalid" ELSE "constructed"
          /\ params' = {[scan |-> scan, psi |-> psi, probe |-> probe]}
    /\ UNCHANGED <<pd_call, pd_checked, pd_cost_at, pd_result>>
    /\ UNCHANGED <<rs_vars, po_vars, pr_vars, fn_vars, ss_vars, sr_vars>>

\* update_positions_pd(operator, data, psi, probe, scan, dx, step) on the
\* scan of the constructed parameters
update_positions_pd ==
    /\ pd_pc = "constructed"
    /\ \E p \in params, step \in StepSet :
       \E grad \in [1..Len(p.scan.pos) -> GradSet] :
          LET candidate == pd_candidate(p.scan, grad, step)
              checked == pd_checked_scan(p.scan, grad, step)
              raises == check_allowed_positions(checked, p.psi, p.probe)
          IN  /\ pd_call' = {[scan |-> p.scan, grad |-> grad, step |-> step]}
              /\ pd_checked' = {checked}
              /\ pd_pc' = IF raises THEN "raised" ELSE "returned"
              /\ pd_cost_at' = IF raises THEN {} ELSE {candidate}
              /\ pd_result' = IF raises THEN {}
                              ELSE {[scan |-> candidate, cost |-> cost(candidate)]}
    /\ UNCHANGED params
    /\ UNCHANGED <<rs_vars, po_vars, pr_vars, fn_vars, ss_vars, sr_vars>>

NextPD == PtychoParameters \/ update_positions_pd

SpecPD == InitPD /\ [][NextPD]_vars

---------------------------------------------------------------------------
(***************************************************************************)
(* estimate_global_transformation_ransac as a process: the call, one step  *)
(* per subset drawn by tike.opt.randomizer.choice, the return.             *)
(***************************************************************************)
MaxPairs == 3      \* largest number of position pairs of a RANSAC call
MaxIter == 2       \* largest max_iter of a RANSAC call

\* positions0: the first n points of a fixed raster
BasePoint(i) == <<((i - 1) % 2) * 2, ((i - 1) \div 2) * 2>>
Offsets == {<<0, 0>>, <<1, 0>>, <<0, 3>>}
RansacSeeds == {Identity, [Identity EXCEPT !.t0 = 1]}
\* (max_error, min_consensus)
RansacSettings ==
    {[max_error |-> 0, min_consensus |-> [num |-> 1, den |-> 2]],
     [max_error |-> 1, min_consensus |-> [num |-> 2, den |-> 3]]}
RansacMinSamples == {2}

RansacArgs ==
    UNION {
      {[positions0 |-> [i \in 1..n |-> BasePoint(i)],
        positions1 |-> [i \in 1..n |->
                          <<BasePoint(i)[1] + off[i][1],
                            BasePoint(i)[2] + off[i][2]>>],
        weights |-> [i \in 1..n |-> <<1>>],
        transform |-> seed,
        min_sample |-> ms,
        max_error |-> st.max_error,
        min_consensus |-> st.min_consensus,
        max_iter |-> mi]
        : off \in [1..n -> Offsets], seed \in RansacSeeds,
          st \in RansacSettings, ms \in RansacMinSamples, mi \in {1, MaxIter}}
      : n \in 1..MaxPairs}

\* the call: line 115
ransac_call ==
    /\ rs_pc = "idle"
    /\ \E a \in RansacArgs :
          /\ rs_args' = {a}
          /\ rs_transform' = a.transform
    /\ rs_best' = Inf
    /\ rs_i' = 0
    /\ rs_pc' = "loop"
    /\ UNCHANGED <<rs_last, rs_seen, rs_result>>
    /\ UNCHANGED <<pd_vars, po_vars, pr_vars, fn_vars, ss_vars, sr_vars>>

\* one pass of the loop, lines 117-147, on the next subset
ransac_loop ==
    /\ rs_pc = "loop"
    /\ \E a \in rs_args :
          /\ rs_i < a.max_iter
          /\ \E subset \in [1..a.min_sample -> 1..Len(a.positions0)] :
             \E it \in ransac_iteration(rs_transform, rs_best, a, subset) :
                /\ rs_transform' = it.transform
                /\ rs_best' = it.best_fitness
                /\ rs_last' = {it}
                /\ rs_seen' = (rs_seen \/ it.refit # {})
    /\ rs_i' = rs_i + 1
    /\ UNCHANGED <<rs_pc, rs_args, rs_result>>
    /\ UNCHANGED <<pd_vars, po_vars, pr_vars, fn_vars, ss_vars, sr_vars>>

\* line 148: return transform, best_fitness
ransac_return ==
    /\ rs_pc = "loop"
    /\ \E a \in rs_args : rs_i = a.max_iter
    /\ rs_result' = {[transform |-> rs_transform, cost |-> rs_best]}
    /\ rs_pc' = "done"
    /\ UNCHANGED <<rs_args, rs_i, rs_transform, rs_best, rs_last, rs_seen>>
    /\ UNCHANGED <<pd_vars, po_vars, pr_vars, fn_vars, ss_vars, sr_vars>>

InitRansac == PdIdle /\ RsIdle /\ PoIdle /\ PrIdle /\ FnIdle /\ SsIdle /\ SrIdle

NextRansac == ransac_call \/ ransac_loop \/ ransac_return

SpecRansac == InitRansac /\ [][NextRansac]_vars

---------------------------------------------------------------------------
(***************************************************************************)
(* The session's PositionOptions, its per-device shards and the affine     *)
(* regularization of a shard.                                              *)
(***************************************************************************)
MaxRows == 2       \* number of positions of the session's PositionOptions

Devices == {1, 2}
RegMaxErrors == {0}

\* index arrays: one or two increasing indices into n rows
IndexArrays(n) ==
    {<<i>> : i \in 1..n}
    \cup UNION {{<<i, j>> : j \in (i + 1)..n} : i \in 1..n}

ParentRows == Arr([i \in 1..MaxRows |-> BasePoint(i)])
ParentConfidences == {Arr([i \in 1..MaxRows |-> <<1 + (i % 2)>>])}
RegOffsets == {<<0, 0>>, <<1, 0>>}

\* updated positions: original plus one offset per position
Shifted(original, off) ==
    Arr([i \in 1..Len(original) |->
            <<original[i][1] + off[i][1], original[i][2] + off[i][2]>>])

\* the RANSAC calls affine_position_regularization can make in this
\* specification, and their outcomes, tabulated once
RegCalls ==
    UNION {
      {[positions0 |-> Select(ParentRows, idx),
        positions1 |-> Shifted(Select(ParentRows, idx), off),
        weights |-> Select(conf, idx),
        transform |-> seed,
        min_sample |-> DefaultMinSample,
        max_error |-> me,
        min_consensus |-> DefaultMinConsensus,
        max_iter |-> DefaultMaxIter]
        : off \in [1..Len(idx) -> RegOffsets], conf \in ParentConfidences,
          seed \in Lattice \cup RansacSeeds, me \in RegMaxErrors}
      : idx \in IndexArrays(MaxRows)}

RansacTable == {<<a, estimate_global_transformation_ransac(a)>> : a \in RegCalls}

ransac_outcomes(a) == (CHOOSE e \in RansacTable : e[1] = a)[2]

\* memory handed out by np.empty
Uninit ==
    {[initial_scan |-> [i \in 1..(MaxRows + 1) |-> <<v, v>>],
      confidence |-> [i \in 1..(MaxRows + 1) |-> <<v>>],
      momentum |-> [i \in 1..(MaxRows + 1) |-> <<v, v, v, v>>]] : v \in {0, 7}}

InitReg ==
    /\ PdIdle
    /\ RsIdle
    /\ PrIdle
    /\ FnIdle
    /\ SsIdle
    /\ SrIdle
    /\ \E uam \in BOOLEAN, conf \in ParentConfidences :
          po_parent = [PositionOptions(ParentRows, uam, <<999, 1000>>, <<9, 10>>,
                                       TRUE, Identity)
                       EXCEPT !.confidence = conf]
    /\ po_shard = [d \in Devices |-> {}]
    /\ po_last = {}

\* position_options.split(indices) for a device
po_split ==
    /\ \E d \in Devices, indices \in IndexArrays(Len(po_parent.initial_scan)) :
          po_shard' = [po_shard EXCEPT
                          ![d] = {[opts |-> split(po_parent, indices),
                                   indices |-> indices]}]
    /\ po_last' = {}
    /\ UNCHANGED po_parent
    /\ UNCHANGED <<pd_vars, rs_vars, pr_vars, fn_vars, ss_vars, sr_vars>>

\* position_options.insert(shard, indices)
po_insert ==
    /\ \E d \in Devices : \E sh \in po_shard[d] :
          po_parent' = insert(po_parent, sh.opts, sh.indices)
    /\ po_last' = {}
    /\ UNCHANGED po_shard
    /\ UNCHANGED <<pd_vars, rs_vars, pr_vars, fn_vars, ss_vars, sr_vars>>

\* position_options.join(shard, indices)
po_join ==
    /\ \E d \in Devices : \E sh \in po_shard[d] : \E u \in Uninit :
          po_parent' = join(po_parent, sh.opts, sh.indices, u)
    /\ po_last' = {}
    /\ UNCHANGED po_shard
    /\ UNCHANGED <<pd_vars, rs_vars, pr_vars, fn_vars, ss_vars, sr_vars>>

\* affine_position_regularization(op, psi, probe, original, updated,
\* position_options, max_error) on the shard of a device, with the shard's
\* initial_scan as original
po_regularize ==
    /\ \E d \in Devices : \E sh \in po_shard[d] :
       \E off \in [1..Len(sh.opts.initial_scan) -> RegOffsets], me \in RegMaxErrors :
          LET original == sh.opts.initial_scan
              updated == Shifted(original, off)
              a == regularization_call(original, updated, sh.opts, me)
          IN  \E out \in ransac_outcomes(a) :
                /\ po_shard' =
                      [po_shard EXCEPT
                          ![d] = {[sh EXCEPT !.opts =
                                     affine_position_regularization(
                                         sh.opts, out.transform)]}]
                /\ po_last' = {[device |-> d, updated |-> updated,
                                max_error |-> me, seen |-> out.seen,
                                fits |-> out.fits,
                                returned |-> affine_position_regularization(
                                                sh.opts, out.transform)]}
    /\ UNCHANGED po_parent
    /\ UNCHANGED <<pd_vars, rs_vars, pr_vars, fn_vars, ss_vars, sr_vars>>

\* position_options.v = 1 on the shard of a device that keeps momentum
po_set_v ==
    /\ \E d \in Devices : \E sh \in po_shard[d] :
          /\ sh.opts.use_adaptive_moment
          /\ po_shard' = [po_shard EXCEPT ![d] = {[sh EXCEPT !.opts = set_v(sh.opts, 1)]}]
    /\ po_last' = {}
    /\ UNCHANGED po_parent
    /\ UNCHANGED <<pd_vars, rs_vars, pr_vars, fn_vars, ss_vars, sr_vars>>

NextReg == po_split \/ po_insert \/ po_join \/ po_set_v \/ po_regularize

SpecReg == InitReg /\ [][NextReg]_vars

---------------------------------------------------------------------------
(***************************************************************************)
(* The methods of PositionOptions on a parent and its shards, each step    *)
(* leaving in po_last which method ran and with which arguments.           *)
(***************************************************************************)
NewRows == {<<<<9, 9>>>>}          \* new_scan of append
Factors == {2}                     \* factor of resample

\* the index arrays a shard of n rows can be joined at: the ones it was
\* split at, or n indices ending one past the parent
JoinIndices(n, indices, len_scan) ==
    {indices} \cup {ix \in IndexArrays(MaxRows + 1) :
                        Len(ix) = n /\ ix[n] = len_scan + 1}

\* a parent whose rows differ in every array: momentum as left by earlier
\* position updates
InitPO ==
    /\ PdIdle
    /\ RsIdle
    /\ PrIdle
    /\ FnIdle
    /\ SsIdle
    /\ SrIdle
    /\ \E uam \in BOOLEAN, conf \in ParentConfidences :
          po_parent =
              [PositionOptions(ParentRows, uam, <<999, 1000>>, <<9, 10>>,
                               TRUE, Identity)
               EXCEPT !.confidence = conf,
                      !.momentum = IF uam
                                   THEN {Arr([i \in 1..MaxRows |-> <<i, i, 0, 0>>])}
                                   ELSE {}]
    /\ po_shard = [d \in Devices |-> {}]
    /\ po_last = {}

PositionOptions_append ==
    /\ Len(po_parent.initial_scan) < MaxRows + 1
    /\ \E new_scan \in NewRows :
          /\ po_parent' = append(po_parent, new_scan)
          /\ po_last' = {[op |-> "append", new_scan |-> new_scan]}
    /\ UNCHANGED po_shard
    /\ UNCHANGED <<pd_vars, rs_vars, pr_vars, fn_vars, ss_vars, sr_vars>>

PositionOptions_split ==
    /\ \E d \in Devices, indices \in IndexArrays(Len(po_parent.initial_scan)) :
          /\ po_shard' = [po_shard EXCEPT
                             ![d] = {[opts |-> split(po_parent, indices),
                                      indices |-> indices]}]
          /\ po_last' = {[op |-> "split", device |-> d, indices |-> indices]}
    /\ UNCHANGED po_parent
    /\ UNCHANGED <<pd_vars, rs_vars, pr_vars, fn_vars, ss_vars, sr_vars>>

PositionOptions_insert ==
    /\ \E d \in Devices : \E sh \in po_shard[d] :
          /\ po_parent' = insert(po_parent, sh.opts, sh.indices)
          /\ po_last' = {[op |-> "insert", device |-> d, indices |-> sh.indices]}
    /\ UNCHANGED po_shard
    /\ UNCHANGED <<pd_vars, rs_vars, pr_vars, fn_vars, ss_vars, sr_vars>>

PositionOptions_join ==
    /\ \E d \in Devices : \E sh \in po_shard[d] : \E u \in Uninit :
       \E indices \in JoinIndices(Len(sh.indices), sh.indices,
                                   Len(po_parent.initial_scan)) :
          /\ MaxOf(indices) <= MaxRows + 1
          /\ po_parent' = join(po_parent, sh.opts, indices, u)
          /\ po_last' = {[op |-> "join", device |-> d, indices |-> indices]}
    /\ UNCHANGED po_shard
    /\ UNCHANGED <<pd_vars, rs_vars, pr_vars, fn_vars, ss_vars, sr_vars>>

PositionOptions_resample ==
    /\ \E factor \in Factors :
          po_last' = {[op |-> "resample", factor |-> factor,
                       new |-> resample_new(po_parent, factor),
                       returned |-> resample(po_parent, factor)]}
    /\ UNCHANGED <<po_parent, po_shard>>
    /\ UNCHANGED <<pd_vars, rs_vars, pr_vars, fn_vars, ss_vars, sr_vars>>

NextPO ==
    \/ PositionOptions_append
    \/ PositionOptions_split
    \/ PositionOptions_insert
    \/ PositionOptions_join
    \/ PositionOptions_resample

SpecPO == InitPO /\ [][NextPO]_vars

---------------------------------------------------------------------------
(***************************************************************************)
(* Properties of check_allowed_positions and update_positions_pd.          *)
(***************************************************************************)
Margin == 2        \* the documented buffer around the field of view

\* the call has ended, by return or by ValueError
PdEnded == pd_pc \in {"returned", "raised"}

\* the documented lower edge: every coordinate >= margin
LowerEdgeOk(scan) ==
    \A i \in 1..Len(scan.pos) : \A ax \in 1..2 :
        scan.pos[i][ax] >= Margin * scan.den

\* the documented upper edge: position + margin + probe_shape < psi.shape
UpperEdgeOk(scan, psi, probe) ==
    \A i \in 1..Len(scan.pos) : \A ax \in 1..2 :
        scan.pos[i][ax] + (Margin + probe[ax]) * scan.den < psi[ax] * scan.den

\* C1: the bounds check of update_positions_pd raises when a coordinate of
\* the updated scan equals margin - 1 = 1, and does not raise when the
\* smallest coordinate is exactly margin = 2 and the upper edge is satisfied.
C1_BoundsAtMargin ==
    PdEnded =>
        \A p \in params, s \in pd_checked :
            /\ (\E i \in 1..Len(s.pos) : \E ax \in 1..2 :
                    s.pos[i][ax] = (Margin - 1) * s.den)
                => pd_pc = "raised"
            /\ (/\ LowerEdgeOk(s)
                /\ \E i \in 1..Len(s.pos) : \E ax \in 1..2 :
                      s.pos[i][ax] = Margin * s.den
                /\ UpperEdgeOk(s, p.psi, p.probe))
                => pd_pc = "returned"

\* C2: every scan accepted by check_allowed_positions satisfies
\* position + 2 + probe_shape < psi.shape on both axes, and every scan that
\* does not satisfy it raises ValueError (at construction and after an
\* update alike).
C2_UpperMargin ==
    /\ pd_pc = "constructed" =>
          \A p \in params : UpperEdgeOk(p.scan, p.psi, p.probe)
    /\ PdEnded =>
          \A p \in params, s \in pd_checked :
              /\ pd_pc = "returned" => UpperEdgeOk(s, p.psi, p.probe)
              /\ ~UpperEdgeOk(s, p.psi, p.probe) => pd_pc = "raised"

\* C3: the scan returned by update_positions_pd has, on each axis, the
\* same mean over the position axis as the input scan.
C3_CentroidUnchanged ==
    \A c \in pd_call, r \in pd_result : \A ax \in 1..2 :
        mean(r.scan).v[ax] * mean(c.scan).den
            = mean(c.scan).v[ax] * mean(r.scan).den

\* a call returned whose gradient step alone moved the centroid
C3_Witness ==
    /\ pd_pc = "returned"
    /\ \E c \in pd_call :
          /\ Len(c.scan.pos) >= 2
          /\ \E ax \in 1..2 :
                mean(pd_stepped(c.scan, c.grad, c.step)).v[ax] * mean(c.scan).den
                    # mean(c.scan).v[ax] * mean(pd_stepped(c.scan, c.grad, c.step)).den

\* C4: the bounds check runs once, on the final candidate (after the
\* gradient step and the re-centring); when it fails the call raises, the
\* cost is not evaluated and no (scan, cost) pair is returned; when it
\* passes, the pair returned is the checked candidate with its cost.
C4_CheckOnFinalCandidate ==
    PdEnded =>
        \A c \in pd_call, p \in params :
            LET final == pd_recentred(pd_stepped(c.scan, c.grad, c.step),
                                      mean(c.scan),
                                      mean(pd_stepped(c.scan, c.grad, c.step)))
            IN  /\ pd_checked = {final}
                /\ pd_pc = "raised" <=>
                        check_allowed_positions(final, p.psi, p.probe)
                /\ pd_pc = "raised" => pd_cost_at = {} /\ pd_result = {}
                /\ pd_pc = "returned" =>
                        /\ pd_cost_at = {final}
                        /\ pd_result = {[scan |-> final, cost |-> cost(final)]}

\* a call raised although the scan before re-centring was within bounds
C4_Witness ==
    /\ pd_pc = "raised"
    /\ pd_result = {}
    /\ \E c \in pd_call, p \in params :
          ~check_allowed_positions(pd_stepped(c.scan, c.grad, c.step),
                                   p.psi, p.probe)

---------------------------------------------------------------------------
(***************************************************************************)
(* Properties of estimate_global_transformation_ransac.                    *)
(***************************************************************************)
\* C5: if no pass of the loop reached min_consensus, the call returns
\* exactly the caller-supplied transform with cost = +infinity.
C5_NoConsensusReturnsInput ==
    (rs_pc = "done" /\ ~rs_seen) =>
        \A a \in rs_args :
            rs_result = {[transform |-> a.transform, cost |-> Inf]}

\* a call returned without consensus although its last subset fit had
\* moved away from the caller's (non-default) transform
C5_Witness ==
    /\ rs_pc = "done"
    /\ ~rs_seen
    /\ rs_i >= 2
    /\ \E a \in rs_args, L \in rs_last :
          /\ a.transform # Identity
          /\ L.candidate # a.transform

\* C6: after every pass, (transform, best_fitness) is the refit of that pass
\* when the pass reached consensus with a refit cost strictly lower than
\* the best so far, and is what it was before the pass otherwise (equal or
\* higher cost never replaces the earlier winner); the pair returned is the
\* final (transform, best_fitness), so the cost is paired with the transform.
C6_LastImprovingRefit ==
    /\ rs_pc \in {"loop", "done"} =>
          \A L \in rs_last :
              IF \E f \in L.refit :
                    f.cost.num * L.best_before.den < L.best_before.num * f.cost.den
              THEN \A f \in L.refit :
                      rs_transform = f.transform /\ rs_best = f.cost
              ELSE rs_transform = L.seed /\ rs_best = L.best_before
    /\ rs_pc = "done" =>
          rs_result = {[transform |-> rs_transform, cost |-> rs_best]}

\* a pass reached consensus with a refit that ties the best cost so far but
\* is another transform, and the call returned the earlier winner
C6_Witness ==
    /\ rs_pc = "done"
    /\ \E L \in rs_last : \E f \in L.refit :
          /\ L.best_before.den # 0
          /\ f.cost.num * L.best_before.den = L.best_before.num * f.cost.den
          /\ f.transform # L.seed
          /\ rs_result = {[transform |-> L.seed, cost |-> L.best_before]}

\* C7: in each pass a pair is an inlier iff its Euclidean residual under the
\* subset candidate is <= max_error, the candidate is refitted iff
\* inliers / N >= min_consensus, and the refit uses exactly the inlier pairs.
C7_InlierConsensusRefit ==
    \A a \in rs_args, L \in rs_last :
        LET N == Len(a.positions0)
            q == AffineTransform_call(L.candidate, a.positions0)
            In == {i \in 1..N :
                     Sq(<<q[i][1] - a.positions1[i][1],
                          q[i][2] - a.positions1[i][2]>>)
                        <= a.max_error * a.max_error}
        IN  /\ \A i \in 1..N : L.inliars[i] <=> i \in In
            /\ L.refit # {} <=>
                  Cardinality(In) * a.min_consensus.den
                      >= a.min_consensus.num * N
            /\ L.refit # {} =>
                  /\ Len(L.refit_idx) = Cardinality(In)
                  /\ {L.refit_idx[k] : k \in 1..Len(L.refit_idx)} = In

\* a pass whose consensus sits exactly at min_consensus, with an inlier at
\* exactly max_error and a pair left out of the refit
C7_Witness ==
    \E a \in rs_args, L \in rs_last :
        LET N == Len(a.positions0)
            q == AffineTransform_call(L.candidate, a.positions0)
        IN  /\ L.refit # {}
            /\ a.max_error > 0
            /\ Len(L.refit_idx) * a.min_consensus.den = a.min_consensus.num * N
            /\ Len(L.refit_idx) < N
            /\ \E i \in 1..N :
                  /\ L.inliars[i]
                  /\ Sq(<<q[i][1] - a.positions1[i][1],
                           q[i][2] - a.positions1[i][2]>>)
                        = a.max_error * a.max_error

---------------------------------------------------------------------------
(***************************************************************************)
(* Properties of affine_position_regularization and of the shards.         *)
(***************************************************************************)
\* C8: every least-squares fit run by affine_position_regularization is
\* weighted by position_options.confidence: the weights handed to a fit on
\* n position pairs are n values of the confidence array.
C8_FitsWeightedByConfidence ==
    \A L \in po_last : \A sh \in po_shard[L.device] : \A e \in L.fits :
        \E idx \in [1..e.n -> 1..Len(sh.opts.confidence)] :
            e.weights = [k \in 1..e.n |-> sh.opts.confidence[idx[k]][1]]

C10_TransformReplicated ==
    \A d \in Devices : \A sh \in po_shard[d] :
        sh.opts.transform = po_parent.transform

---------------------------------------------------------------------------
(***************************************************************************)
(* Properties of the methods of PositionOptions.                           *)
(***************************************************************************)
\* the three arrays of a PositionOptions have one length
Aligned(o) ==
    /\ Len(o.confidence) = Len(o.initial_scan)
    /\ o.use_adaptive_moment => o.momentum # {}
    /\ \A m \in o.momentum : Len(m) = Len(o.initial_scan)

\* row k of a is row i of b, in all three arrays
SameRow(a, k, b, i) ==
    /\ a.initial_scan[k] = b.initial_scan[i]
    /\ a.confidence[k] = b.confidence[i]
    /\ \A ma \in a.momentum : \E mb \in b.momentum : ma[k] = mb[i]
    /\ (a.momentum = {}) = (b.momentum = {})

InIndices(i, indices) == \E k \in 1..Len(indices) : indices[k] = i

\* C11: after any sequence of append, split, join and insert, initial_scan,
\* confidence and momentum have the same length, split(indices) returns
\* row indices[k] of all three arrays at row k, join and insert write row k
\* of all three arrays at indices[k] and leave the other rows of the
\* parent alone, and append keeps the old rows and adds the new positions.
C11_ArraysInLockstep ==
    /\ [](Aligned(po_parent)
          /\ \A d \in Devices : \A sh \in po_shard[d] : Aligned(sh.opts))
    /\ [][\A L \in po_last' :
            /\ L.op = "split" =>
                  \A sh \in po_shard'[L.device] :
                      /\ Len(sh.opts.initial_scan) = Len(L.indices)
                      /\ \A k \in 1..Len(L.indices) :
                            SameRow(sh.opts, k, po_parent, L.indices[k])
            /\ L.op \in {"insert", "join"} =>
                  \A sh \in po_shard[L.device] :
                      /\ \A k \in 1..Len(L.indices) :
                            SameRow(po_parent', L.indices[k], sh.opts, k)
                      /\ \A i \in 1..Len(po_parent.initial_scan) :
                            ~InIndices(i, L.indices) =>
                                SameRow(po_parent', i, po_parent, i)
            /\ L.op = "append" =>
                  /\ Len(po_parent'.initial_scan)
                        = Len(po_parent.initial_scan) + Len(L.new_scan)
                  /\ \A i \in 1..Len(po_parent.initial_scan) :
                        SameRow(po_parent', i, po_parent, i)
                  /\ \A k \in 1..Len(L.new_scan) :
                        po_parent'.initial_scan[Len(po_parent.initial_scan) + k]
                            = L.new_scan[k]
       ]_vars

\* a shard with momentum was joined past the end of its parent, at other
\* indices than it was split at
C11_Witness ==
    \E L \in po_last :
        /\ L.op = "join"
        /\ \E sh \in po_shard[L.device] :
              /\ L.indices # sh.indices
              /\ sh.opts.momentum # {}
              /\ Len(po_parent.initial_scan) = MaxRows + 1

\* C12: resample(factor) returns a new PositionOptions whose initial_scan is
\* the original one times factor, with the same settings, transform and
\* confidence and with zero momentum.
C12_ResampleReturnsScaled ==
    \A L \in po_last :
        L.op = "resample" =>
            /\ L.returned # {}
            /\ \A r \in L.returned :
                  /\ r.initial_scan = Scaled(po_parent.initial_scan, L.factor)
                  /\ r.confidence = po_parent.confidence
                  /\ r.transform = po_parent.transform
                  /\ r.use_adaptive_moment = po_parent.use_adaptive_moment
                  /\ \A m \in r.momentum : \A i \in 1..Len(m) : m[i] = <<0, 0, 0, 0>>

---------------------------------------------------------------------------
(***************************************************************************)
(* The probe arrays of probe.py.  A field over the WIDE x HIGH pixels is a *)
(* sequence of numbers (imaginary part zero); shared_probe is a sequence   *)
(* over the SHARED modes, eigen_probe over the EIGEN slots and then the    *)
(* modes, weights over the positions, the EIGEN + 1 columns and the modes. *)
(* An optional argument is a set: empty for None.                          *)
(***************************************************************************)
MaxPos == 2        \* largest number of positions of a weights array

RECURSIVE EigenTerm(_, _, _, _, _)
\* lines 226-230: the sum over c of weights[..., c + 1, :m] * eigen_probe[c, :m]
EigenTerm(eigen_probe, w, mode, x, c) ==
    IF c > Len(eigen_probe) THEN 0
    ELSE (IF mode <= Len(eigen_probe[c])
          THEN w[c + 1][mode] * eigen_probe[c][mode][x] ELSE 0)
         + EigenTerm(eigen_probe, w, mode, x, c + 1)

\* mutant: the zeroth weight is not applied to the shared probe
get_varying_probe_unweighted(shared_probe, eigen_probe, weights) ==
    IF weights # {}
    THEN LET w == CHOOSE a \in weights : TRUE
         IN  [base |-> "new",
              array |-> Arr([p \in 1..Len(w) |->
                          Arr([mode \in 1..Len(shared_probe) |->
                              Arr([x \in 1..Len(shared_probe[mode]) |->
                                  shared_probe[mode][x]])])])]
    ELSE [base |-> "new", array |-> <<shared_probe>>]

\* get_varying_probe, lines 202-233: the array returned and the memory it
\* lives in ("new": allocated by the call)
get_varying_probe(shared_probe, eigen_probe, weights) ==
    IF weights # {}
    THEN LET w == CHOOSE a \in weights : TRUE
         IN  [base |-> "new",
              array |-> Arr([p \in 1..Len(w) |->
                          Arr([mode \in 1..Len(shared_probe) |->
                              Arr([x \in 1..Len(shared_probe[mode]) |->
                                  w[p][1][mode] * shared_probe[mode][x]
                                  + (IF eigen_probe = {} THEN 0
                                     ELSE EigenTerm(CHOOSE e \in eigen_probe : TRUE,
                                                    w[p], mode, x, 1))])])])]
    ELSE [base |-> "new", array |-> <<shared_probe>>]

SharedProbes == {<<<<1, 2>>>>, <<<<1, 2>>, <<3, 0>>>>}
EigenProbes == {{}, {<<<<<<1, -1>>>>>>}}
WeightValues == {1, 2}
WeightArrays(n_modes) ==
    {{}} \cup UNION {{{w} : w \in [1..n -> [1..2 -> [1..n_modes -> WeightValues]]]}
                     : n \in 1..MaxPos}

\* one call of get_varying_probe
varying_probe_call ==
    /\ pr_pc = "idle"
    /\ \E shared_probe \in SharedProbes, eigen_probe \in EigenProbes :
       \E weights \in WeightArrays(Len(shared_probe)) :
          /\ pr_call' = {[fn |-> "get_varying_probe",
                          shared_probe |-> shared_probe,
                          eigen_probe |-> eigen_probe,
                          weights |-> weights]}
          /\ pr_out' = {get_varying_probe(shared_probe, eigen_probe, weights)}
    /\ pr_pc' = "returned"
    /\ UNCHANGED <<pr_dev, pr_red>>
    /\ UNCHANGED <<pd_vars, rs_vars, po_vars, fn_vars, ss_vars, sr_vars>>

InitVarying == PdIdle /\ RsIdle /\ PoIdle /\ PrIdle /\ FnIdle /\ SsIdle /\ SrIdle

NextVarying == varying_probe_call

SpecVarying == InitVarying /\ [][NextVarying]_vars

\* the shared probe at every position
Broadcast_to(shared_probe, n) == Arr([p \in 1..n |-> shared_probe])

\* C13: get_varying_probe(shared_probe, None, weights) is shared_probe
\* broadcast to the N positions of weights, in a fresh array.
C13_SharedBroadcast ==
    \A c \in pr_call : \A o \in pr_out :
        (c.fn = "get_varying_probe" /\ c.eigen_probe = {} /\ c.weights # {}) =>
            /\ o.base = "new"
            /\ \A w \in c.weights : o.array = Broadcast_to(c.shared_probe, Len(w))

\* C13 as amended: without eigen probes the result is, at every position and
\* mode, the shared probe times the zeroth weight of that position and
\* mode (the broadcast shared probe where those weights are 1); without
\* weights it is a copy of shared_probe; the array is new in both cases.
C13_SharedTimesZerothWeight ==
    \A c \in pr_call : \A o \in pr_out :
        c.fn = "get_varying_probe" =>
            /\ o.base = "new"
            /\ c.weights = {} => o.array = <<c.shared_probe>>
            /\ \A w \in c.weights :
                  /\ Len(o.array) = Len(w)
                  /\ c.eigen_probe = {} =>
                        \A p \in 1..Len(w) : \A mode \in 1..Len(c.shared_probe) :
                        \A x \in 1..Len(c.shared_probe[mode]) :
                            o.array[p][mode][x]
                                = w[p][1][mode] * c.shared_probe[mode][x]
                  /\ (\A p \in 1..Len(w) : \A mode \in 1..Len(c.shared_probe) :
                          w[p][1][mode] = 1) /\ c.eigen_probe = {} =>
                        o.array = Broadcast_to(c.shared_probe, Len(w))

\* a call without eigen probes whose zeroth weights differ between the
\* positions and are not all 1
C13_Witness ==
    \E c \in pr_call : \E w \in c.weights :
        /\ c.fn = "get_varying_probe"
        /\ c.eigen_probe = {}
        /\ Len(w) >= 2
        /\ w[1][1][1] # w[2][1][1]
        /\ pr_pc = "returned"

---------------------------------------------------------------------------
(***************************************************************************)
(* float arithmetic, exact: a number is num / den in lowest terms with     *)
(* den > 0, or one of the non-finite values +inf = 1/0, -inf = -1/0 and    *)
(* nan = 0/0, combined as IEEE 754 combines them.                          *)
(***************************************************************************)
RECURSIVE GCD(_, _)
GCD(a, b) == IF b = 0 THEN a ELSE GCD(b, a % b)

Abs(n) == IF n < 0 THEN -n ELSE n

nan == [num |-> 0, den |-> 0]
inf == [num |-> 1, den |-> 0]
neg_inf == [num |-> -1, den |-> 0]

\* the float n / d, d # 0
Rat(n, d) ==
    LET g == GCD(Abs(n), Abs(d))
    IN  IF d > 0 THEN [num |-> n \div g, den |-> d \div g]
        ELSE [num |-> (-n) \div g, den |-> (-d) \div g]

isfinite(a) == a.den # 0
isnan(a) == a.den = 0 /\ a.num = 0
sign(a) == IF a.num > 0 THEN 1 ELSE IF a.num < 0 THEN -1 ELSE 0

RNeg(a) == [num |-> -a.num, den |-> a.den]

RAdd(a, b) ==
    IF isnan(a) \/ isnan(b) THEN nan
    ELSE IF isfinite(a) /\ isfinite(b)
         THEN Rat(a.num * b.den + b.num * a.den, a.den * b.den)
    ELSE IF isfinite(a) THEN b
    ELSE IF isfinite(b) THEN a
    ELSE IF a = b THEN a ELSE nan

RSub(a, b) == RAdd(a, RNeg(b))

RMul(a, b) ==
    IF isnan(a) \/ isnan(b) THEN nan
    ELSE IF isfinite(a) /\ isfinite(b) THEN Rat(a.num * b.num, a.den * b.den)
    ELSE IF sign(a) * sign(b) = 0 THEN nan
    ELSE IF sign(a) * sign(b) > 0 THEN inf ELSE neg_inf

\* 1 / a; the sign of a zero is not kept
RInv(a) ==
    IF isnan(a) THEN nan
    ELSE IF ~isfinite(a) THEN Rat(0, 1)
    ELSE IF a.num = 0 THEN inf
    ELSE Rat(a.den, a.num)

RDiv(a, b) == RMul(a, RInv(b))

\* a < b for finite a and b
RLess(a, b) == a.num * b.den < b.num * a.den

RAbs(a) == [num |-> Abs(a.num), den |-> a.den]

RECURSIVE ISqrtBetween(_, _, _)
\* the largest k of lo..hi with k * k <= n
ISqrtBetween(n, lo, hi) ==
    IF lo >= hi THEN lo
    ELSE LET mid == (lo + hi + 1) \div 2
         IN  IF mid * mid <= n THEN ISqrtBetween(n, mid, hi)
             ELSE ISqrtBetween(n, lo, mid - 1)

\* the integer whose square is n
ISqrt(n) ==
    CHOOSE k \in {ISqrtBetween(n, 0, IF n < 46340 THEN n ELSE 46340)} :
        k * k = n

\* np.sqrt(a) for a >= 0 that is the square of a float of the model
RSqrt(a) ==
    IF ~isfinite(a) THEN a
    ELSE [num |-> ISqrt(a.num), den |-> ISqrt(a.den)]

RECURSIVE RSum(_)
RSum(v) == IF v = <<>> THEN Rat(0, 1) ELSE RAdd(Head(v), RSum(Tail(v)))

\* np.mean over the elements of v
RMean(v) == RDiv(RSum(v), Rat(Len(v), 1))

\* an array of integers as an array of floats
Floats(v) == Arr([i \in 1..Len(v) |-> Rat(v[i], 1)])

(***************************************************************************)
(* tike.linalg on fields (sequences of floats over the pixels).            *)
(***************************************************************************)
\* sum over the pixels of x * conj(y)
inner(x, y) == RSum(Arr([i \in 1..Len(x) |-> RMul(x[i], y[i])]))

\* tike.linalg.norm(x)**2 : the sum of |x|^2
norm2(x) == inner(x, x)

\* tike.linalg.mnorm: the 2-norm with the sum replaced by the mean
mnorm(x) == RSqrt(RMean(Arr([i \in 1..Len(x) |-> RMul(x[i], x[i])])))

\* x * a and x / a for a field x and a float a
Scale(x, a) == Arr([i \in 1..Len(x) |-> RMul(x[i], a)])
Over(x, a) == Arr([i \in 1..Len(x) |-> RDiv(x[i], a)])
Minus(x, y) == Arr([i \in 1..Len(x) |-> RSub(x[i], y[i])])
Plus(x, y) == Arr([i \in 1..Len(x) |-> RAdd(x[i], y[i])])

\* the projection of x onto u
projection(x, u) == Scale(u, RDiv(inner(x, u), inner(u, u)))

RECURSIVE gs_minus(_, _, _)
\* x minus its projections onto u[1..j]
gs_minus(x, u, j) ==
    IF j = 0 THEN x ELSE Minus(gs_minus(x, u, j - 1), projection(x, u[j]))

RECURSIVE orthogonalize_gs(_)
\* tike.linalg.orthogonalize_gs: Gram-Schmidt over a stack of fields; the
\* fields are made orthogonal, they are not rescaled
orthogonalize_gs(stack) ==
    IF Len(stack) <= 1 THEN stack
    ELSE LET u == orthogonalize_gs(SubSeq(stack, 1, Len(stack) - 1))
         IN  Append(u, gs_minus(stack[Len(stack)], u, Len(u)))

---------------------------------------------------------------------------
(***************************************************************************)
(* constrain_variable_probe, lines 236-317.  variable_probe[e][m] is the   *)
(* field of eigen slot e and mode m, weights[p][c][m] the weight of        *)
(* position p, column c (column 1 belongs to the shared probe) and mode m. *)
(***************************************************************************)
\* variable_probe.shape[-3]
probes_with_modes(variable_probe) == Len(variable_probe[1])

\* the weights of column c and mode m over the positions
Column(weights, c, m) == Arr([p \in 1..Len(weights) |-> weights[p][c][m]])

\* the fields of mode m over the eigen slots
Stack(variable_probe, m) ==
    Arr([e \in 1..Len(variable_probe) |-> variable_probe[e][m]])

\* lines 240-243: variable_probe /= vnorm and
\* weights[..., 1:, :probes_with_modes] *= vnorm[..., 0, 0]
normalized_probe(variable_probe) ==
    Arr([e \in 1..Len(variable_probe) |->
        Arr([m \in 1..Len(variable_probe[e]) |->
            Over(variable_probe[e][m], mnorm(variable_probe[e][m]))])])

rescaled_weights(variable_probe, weights) ==
    LET vnorm == Arr([e \in 1..Len(variable_probe) |->
                     Arr([m \in 1..Len(variable_probe[e]) |->
                         mnorm(variable_probe[e][m])])])
    IN  Arr([p \in 1..Len(weights) |->
            Arr([c \in 1..Len(weights[p]) |->
                Arr([m \in 1..Len(weights[p][c]) |->
                    IF c >= 2 /\ m <= probes_with_modes(variable_probe)
                    THEN RMul(weights[p][c][m], vnorm[c - 1][m])
                    ELSE weights[p][c][m]])])])

\* mutant: the result of the orthogonalization is dropped
unorthogonalized_probe(variable_probe) == variable_probe

\* lines 246-250: Gram-Schmidt over the eigen slots, for every mode
orthogonalized_probe(variable_probe) ==
    LET gs == Arr([m \in 1..probes_with_modes(variable_probe) |->
                  orthogonalize_gs(Stack(variable_probe, m))])
    IN  Arr([e \in 1..Len(variable_probe) |->
            Arr([m \in 1..Len(variable_probe[e]) |-> gs[m][e]])])

\* lines 253-257: power[e][m], the squared norm over the positions of the
\* weights of eigen slot e and mode m
weights_power(variable_probe, weights) ==
    Arr([e \in 1..Len(variable_probe) |->
        Arr([m \in 1..probes_with_modes(variable_probe) |->
            norm2(Column(weights, e + 1, m))])])

\* _constrain_variable_probe1, lines 236-259
constrain_variable_probe1(variable_probe, weights) ==
    LET scaled == rescaled_weights(variable_probe, weights)
    IN  [variable_probe |->
             orthogonalized_probe(normalized_probe(variable_probe)),
         weights |-> scaled,
         power |-> weights_power(variable_probe, scaled)]

\* np.argsort(-keys): the indices of keys from the largest key to the
\* smallest, NaN keys last; on device arrays the sort is stable, equal keys
\* stay in order
argsort_descending(keys) ==
    LET before(a, b) == ~isnan(a) /\ (isnan(b) \/ RLess(b, a))
        place(e) == 1 + Cardinality({j \in 1..Len(keys) :
                                        before(keys[j], keys[e])})
                      + Cardinality({j \in 1..(e - 1) : keys[j] = keys[e]})
    IN  Arr([k \in 1..Len(keys) |-> CHOOSE e \in 1..Len(keys) : place(e) = k])

\* the values of v in increasing order
SortAscending(v) ==
    LET place(e) == 1 + Cardinality({j \in 1..Len(v) : RLess(v[j], v[e])})
                      + Cardinality({j \in 1..(e - 1) : v[j] = v[e]})
    IN  Arr([k \in 1..Len(v) |-> v[CHOOSE e \in 1..Len(v) : place(e) = k]])

\* cp.percentile(v, 95) with linear interpolation between the two nearest
\* ranks: the virtual index is 0.95 * (n - 1); NaN when v holds a NaN
percentile95(v) ==
    LET a == SortAscending(v)
        h == 19 * (Len(v) - 1)
        k == h \div 20
        f == Rat(h % 20, 20)
    IN  IF \E i \in 1..Len(v) : isnan(v[i]) THEN nan
        ELSE IF h % 20 = 0 THEN a[k + 1]
        ELSE RAdd(a[k + 1], RMul(f, RSub(a[k + 2], a[k + 1])))

\* lines 267-268: the order of the eigen slots of mode m
sorted_slots(power, m) ==
    argsort_descending(Arr([e \in 1..Len(power) |-> power[e][m]]))

\* lines 267-270: the slots of every mode reordered, in weights and in
\* variable_probe
sorted_weights(variable_probe, weights, power) ==
    LET sorted == Arr([m \in 1..probes_with_modes(variable_probe) |->
                      sorted_slots(power, m)])
    IN  Arr([p \in 1..Len(weights) |->
            Arr([c \in 1..Len(weights[p]) |->
                Arr([m \in 1..Len(weights[p][c]) |->
                    IF c >= 2 /\ m <= probes_with_modes(variable_probe)
                    THEN weights[p][1 + sorted[m][c - 1]][m]
                    ELSE weights[p][c][m]])])])

sorted_probe(variable_probe, power) ==
    LET sorted == Arr([m \in 1..probes_with_modes(variable_probe) |->
                      sorted_slots(power, m)])
    IN  Arr([e \in 1..Len(variable_probe) |->
            Arr([m \in 1..Len(variable_probe[e]) |->
                variable_probe[sorted[m][e]][m]])])

\* np.minimum: NaN when either argument is NaN
RMin(a, b) ==
    IF isnan(a) \/ isnan(b) THEN nan ELSE IF RLess(b, a) THEN b ELSE a

\* mutant: the clipped magnitude loses its sign
clipped_unsigned(w, limit) == RMin(RAbs(w), limit)

\* lines 273-282: minimum(|w|, limit) * sign(w)
clipped(w, limit) == RMul(RMin(RAbs(w), limit), Rat(sign(w), 1))

\* lines 276-281: the limit of column c and mode m, 1.5 times the 95th
\* percentile of |weights| over the positions
clip_limit(weights, c, m) ==
    LET aevol == Arr([p \in 1..Len(weights) |-> RAbs(weights[p][c][m])])
    IN  RMul(Rat(3, 2), percentile95(aevol))

clipped_weights(weights) ==
    LET limit == Arr([c \in 1..Len(weights[1]) |->
                     Arr([m \in 1..Len(weights[1][c]) |->
                         clip_limit(weights, c, m)])])
    IN  Arr([p \in 1..Len(weights) |->
            Arr([c \in 1..Len(weights[p]) |->
                Arr([m \in 1..Len(weights[p][c]) |->
                    clipped(weights[p][c][m], limit[c][m])])])])

\* _constrain_variable_probe2, lines 262-284
constrain_variable_probe2(variable_probe, weights, power) ==
    LET sorted == sorted_weights(variable_probe, weights, power)
    IN  [variable_probe |-> sorted_probe(variable_probe, power),
         sorted |-> sorted,
         weights |-> clipped_weights(sorted)]

\* comm.pool.allreduce: every device receives the elementwise sum of the
\* arrays of all devices
allreduce(arrays) ==
    LET total == Arr([e \in 1..Len(arrays[1]) |->
                    Arr([m \in 1..Len(arrays[1][e]) |->
                        RSum(Arr([d \in 1..Len(arrays) |-> arrays[d][e][m]]))])])
    IN  Arr([d \in 1..Len(arrays) |-> total])

\* mutant: every device keeps the power of its own positions
unreduced_power(power) == power

\* line 308: power = comm.pool.allreduce(power)
reduced_power(power) == allreduce(power)

---------------------------------------------------------------------------
(***************************************************************************)
(* The calls of constrain_variable_probe.  Every device holds a copy of    *)
(* the eigen probes and the weights of its own scan positions.             *)
(***************************************************************************)
LongShard == 8

Ones(n) == Arr([i \in 1..n |-> 1])
Ramp(n) == Arr([i \in 1..n |-> 0 - i])
Spike(n) == Arr([i \in 1..n |-> IF i = n THEN 0 - 17 ELSE 0])
Flat(n) == Arr([i \in 1..n |-> 6])

WeightColumns(n) == {Ones(n), Ramp(n), Spike(n)}

\* the columns of the long shard
LongColumns(n) == {Flat(n), Spike(n)}

\* (POSI, EIGEN + 1, SHARED) weights with two eigen columns and two modes
ShardWeights(n, a, b) ==
    Arr([p \in 1..n |->
        Arr([c \in 1..3 |->
            Floats(Arr([m \in 1..2 |->
                IF c = 1 THEN 1
                ELSE IF (c = 2) = (m = 1) THEN a[p] ELSE b[p]]))])])

\* (EIGEN, SHARED, WIDE * HIGH) eigen probes with non-zero real fields
EigenStacks ==
    {<<<<Floats(<<1, 7>>)>>, <<Floats(<<1, 1>>)>>>>,
     <<<<Floats(<<2, 2>>)>>, <<Floats(<<1, -1>>)>>>>,
     <<<<Floats(<<1, 1>>), Floats(<<1, 7>>)>>,
       <<Floats(<<1, -1>>), Floats(<<7, 1>>)>>>>}

\* lines 287-300: constrain_variable_probe(comm, variable_probe, weights)
constrain_call ==
    /\ pr_pc = "idle"
    /\ \E variable_probe \in EigenStacks, n1 \in 1..MaxPos :
       \E a1 \in WeightColumns(n1), b1 \in WeightColumns(n1),
          a2 \in LongColumns(LongShard), b2 \in LongColumns(LongShard) :
          LET weights == <<ShardWeights(n1, a1, b1),
                           ShardWeights(LongShard, a2, b2)>>
          IN  /\ pr_call' = {[fn |-> "constrain_variable_probe",
                              variable_probe |-> variable_probe,
                              weights |-> weights]}
              /\ pr_dev' = Arr([d \in 1..2 |->
                              [pc |-> "phase1",
                               variable_probe |-> variable_probe,
                               weights |-> weights[d],
                               power |-> <<>>,
                               sorted |-> <<>>]])
    /\ pr_pc' = "map1"
    /\ pr_red' = <<>>
    /\ pr_out' = {}
    /\ UNCHANGED <<pd_vars, rs_vars, po_vars, fn_vars, ss_vars, sr_vars>>

\* lines 301-305: one device runs _constrain_variable_probe1
constrain_phase1(d) ==
    /\ pr_pc = "map1"
    /\ pr_dev[d].pc = "phase1"
    /\ LET r == constrain_variable_probe1(pr_dev[d].variable_probe,
                                          pr_dev[d].weights)
       IN  pr_dev' = [pr_dev EXCEPT ![d] =
                         [pc |-> "done1",
                          variable_probe |-> r.variable_probe,
                          weights |-> r.weights,
                          power |-> r.power,
                          sorted |-> <<>>]]
    /\ UNCHANGED <<pr_pc, pr_call, pr_red, pr_out>>
    /\ UNCHANGED <<pd_vars, rs_vars, po_vars, fn_vars, ss_vars, sr_vars>>

\* lines 301-308: the map has returned on every device; the powers are
\* reduced across the devices
constrain_reduce ==
    /\ pr_pc = "map1"
    /\ \A d \in 1..Len(pr_dev) : pr_dev[d].pc = "done1"
    /\ pr_red' = reduced_power(Arr([d \in 1..Len(pr_dev) |-> pr_dev[d].power]))
    /\ pr_dev' = Arr([d \in 1..Len(pr_dev) |->
                     [pr_dev[d] EXCEPT !.pc = "phase2"]])
    /\ pr_pc' = "map2"
    /\ UNCHANGED <<pr_call, pr_out>>
    /\ UNCHANGED <<pd_vars, rs_vars, po_vars, fn_vars, ss_vars, sr_vars>>

\* mutant: the device reads the power computed by the next device
phase2_power_raw(reduced, dev, d) == dev[(d % Len(dev)) + 1].power

\* lines 310-314: the power passed to device d is element d of the reduced
\* list
phase2_power(reduced, dev, d) == reduced[d]

\* lines 310-315: one device runs _constrain_variable_probe2 on the reduced
\* power
constrain_phase2(d) ==
    /\ pr_pc = "map2"
    /\ pr_dev[d].pc = "phase2"
    /\ LET r == constrain_variable_probe2(pr_dev[d].variable_probe,
                                          pr_dev[d].weights,
                                          phase2_power(pr_red, pr_dev, d))
       IN  pr_dev' = [pr_dev EXCEPT ![d] =
                         [pc |-> "done2",
                          variable_probe |-> r.variable_probe,
                          weights |-> r.weights,
                          power |-> pr_dev[d].power,
                          sorted |-> r.sorted]]
    /\ UNCHANGED <<pr_pc, pr_call, pr_red, pr_out>>
    /\ UNCHANGED <<pd_vars, rs_vars, po_vars, fn_vars, ss_vars, sr_vars>>

\* lines 316-317: return variable_probe, weights
constrain_return ==
    /\ pr_pc = "map2"
    /\ \A d \in 1..Len(pr_dev) : pr_dev[d].pc = "done2"
    /\ pr_out' = {[variable_probe |->
                      Arr([d \in 1..Len(pr_dev) |-> pr_dev[d].variable_probe]),
                   weights |->
                      Arr([d \in 1..Len(pr_dev) |-> pr_dev[d].weights])]}
    /\ pr_pc' = "returned"
    /\ UNCHANGED <<pr_call, pr_dev, pr_red>>
    /\ UNCHANGED <<pd_vars, rs_vars, po_vars, fn_vars, ss_vars, sr_vars>>

InitConstrain == PdIdle /\ RsIdle /\ PoIdle /\ PrIdle /\ FnIdle /\ SsIdle /\ SrIdle

NextConstrain ==
    \/ constrain_call
    \/ \E d \in 1..2 : constrain_phase1(d)
    \/ constrain_reduce
    \/ \E d \in 1..2 : constrain_phase2(d)
    \/ constrain_return

SpecConstrain == InitConstrain /\ [][NextConstrain]_vars

---------------------------------------------------------------------------
\* the call of constrain_variable_probe that has returned
ConstrainReturned ==
    /\ pr_pc = "returned"
    /\ \E call \in pr_call : call.fn = "constrain_variable_probe"

\* the permutations of 1..n
Perms(n) == {s \in [1..n -> 1..n] : \A i, j \in 1..n : s[i] = s[j] => i = j}

\* the power of eigen slot e and mode m summed over the devices
GlobalPower(e, m) ==
    RSum(Arr([d \in 1..Len(pr_dev) |-> pr_dev[d].power[e][m]]))

\* s lists the slots of mode m from the largest global power to the smallest,
\* slots of equal power in their original order
DescendingStable(s, m) ==
    \A i, j \in DOMAIN s :
        i < j => \/ RLess(GlobalPower(s[j], m), GlobalPower(s[i], m))
                 \/ /\ GlobalPower(s[j], m) = GlobalPower(s[i], m)
                    /\ s[i] < s[j]

\* C14: when constrain_variable_probe has returned, for every varying
\* submode there is one permutation of the eigen slots, in descending order
\* of the power summed over all devices with equal powers in their original
\* order, such that on every device the returned eigen probe and the weight
\* columns 1.. (before clipping) are the phase-1 arrays in that order.
C14_SortedByGlobalPower ==
    ConstrainReturned =>
        \A call \in pr_call :
        \A m \in 1..probes_with_modes(call.variable_probe) :
        \E s \in Perms(Len(call.variable_probe)) :
            /\ DescendingStable(s, m)
            /\ \A d \in 1..Len(pr_dev) :
                LET one == constrain_variable_probe1(call.variable_probe,
                                                     call.weights[d])
                IN  /\ \A e \in DOMAIN s :
                        pr_dev[d].variable_probe[e][m]
                            = one.variable_probe[s[e]][m]
                    /\ \A p \in 1..Len(one.weights), e \in DOMAIN s :
                        pr_dev[d].sorted[p][e + 1][m]
                            = one.weights[p][s[e] + 1][m]

\* a call has returned in which the slots of some submode were exchanged
\* although the power of one device alone orders them as they were
C14_Witness ==
    /\ ConstrainReturned
    /\ \E call \in pr_call, d \in 1..Len(pr_dev) :
       \E m \in 1..probes_with_modes(call.variable_probe) :
          /\ RLess(pr_dev[d].power[2][m], pr_dev[d].power[1][m])
          /\ RLess(GlobalPower(1, m), GlobalPower(2, m))
          /\ pr_dev[d].variable_probe[1][m]
                # constrain_variable_probe1(call.variable_probe,
                                            call.weights[d]).variable_probe[1][m]

---------------------------------------------------------------------------
\* |weights| of column c and mode m over the positions
Magnitudes(weights, c, m) ==
    Arr([p \in 1..Len(weights) |-> RAbs(weights[p][c][m])])

\* a <= b
RLeq(a, b) == a = b \/ RLess(a, b)

\* C15 as stated: for the returned weights, every magnitude is at most 1.5
\* times the 95th percentile over the positions of the magnitudes of the
\* returned array itself, every weight keeps its sign and no magnitude grows.
C15_ClippedToOwnPercentile ==
    ConstrainReturned =>
        \A d \in 1..Len(pr_dev) :
        \A p \in 1..Len(pr_dev[d].weights), c \in 1..3, m \in 1..2 :
            /\ RLeq(RAbs(pr_dev[d].weights[p][c][m]),
                    RMul(Rat(3, 2),
                         percentile95(Magnitudes(pr_dev[d].weights, c, m))))
            /\ sign(pr_dev[d].weights[p][c][m]) = sign(pr_dev[d].sorted[p][c][m])
            /\ RLeq(RAbs(pr_dev[d].weights[p][c][m]),
                    RAbs(pr_dev[d].sorted[p][c][m]))

\* C15 (amended): for the returned weights, every magnitude is at most 1.5
\* times the 95th percentile over the positions of the magnitudes before the
\* clipping (after the rescaling and the reordering); a weight within that
\* limit is returned unchanged, a larger one is returned with the limit as
\* its magnitude; every weight keeps its sign and no magnitude grows.
C15_ClippedToPriorPercentile ==
    ConstrainReturned =>
        \A d \in 1..Len(pr_dev) :
        \A p \in 1..Len(pr_dev[d].weights), c \in 1..3, m \in 1..2 :
            LET before == pr_dev[d].sorted[p][c][m]
                after == pr_dev[d].weights[p][c][m]
                limit == RMul(Rat(3, 2),
                              percentile95(Magnitudes(pr_dev[d].sorted, c, m)))
            IN  /\ RLeq(RAbs(after), limit)
                /\ RLeq(RAbs(before), limit) => after = before
                /\ RLess(limit, RAbs(before)) => RAbs(after) = limit
                /\ sign(after) = sign(before)
                /\ RLeq(RAbs(after), RAbs(before))

\* a call has returned in which a negative weight was clipped
C15_Witness ==
    /\ ConstrainReturned
    /\ \E d \in 1..Len(pr_dev) :
       \E p \in 1..Len(pr_dev[d].weights), c \in 1..3, m \in 1..2 :
          /\ sign(pr_dev[d].sorted[p][c][m]) = -1
          /\ sign(pr_dev[d].weights[p][c][m]) = -1
          /\ RLess(RAbs(pr_dev[d].weights[p][c][m]),
                   RAbs(pr_dev[d].sorted[p][c][m]))

---------------------------------------------------------------------------
\* C16: when constrain_variable_probe has returned, on every device the
\* fields of any two distinct eigen slots of the same submode have inner
\* product 0.
C16_ModesOrthogonal ==
    ConstrainReturned =>
        \A call \in pr_call, d \in 1..Len(pr_dev) :
        \A m \in 1..probes_with_modes(call.variable_probe) :
        \A i, j \in 1..Len(call.variable_probe) :
            i # j => inner(pr_dev[d].variable_probe[i][m],
                           pr_dev[d].variable_probe[j][m]) = Rat(0, 1)

\* a call has returned whose eigen probes were not orthogonal when passed
\* and whose slots were reordered by phase 2
C16_Witness ==
    /\ ConstrainReturned
    /\ \E call \in pr_call, d \in 1..Len(pr_dev) :
       \E m \in 1..probes_with_modes(call.variable_probe) :
          /\ inner(call.variable_probe[1][m], call.variable_probe[2][m])
                # Rat(0, 1)
          /\ sorted_slots(pr_red[d], m) = <<2, 1>>

---------------------------------------------------------------------------
\* C17: when constrain_variable_probe has returned, on every device the
\* mean-norm of the field of every eigen slot and submode is 1.
C17_MeanNormOne ==
    ConstrainReturned =>
        \A call \in pr_call, d \in 1..Len(pr_dev) :
        \A m \in 1..probes_with_modes(call.variable_probe) :
        \A e \in 1..Len(call.variable_probe) :
            mnorm(pr_dev[d].variable_probe[e][m]) = Rat(1, 1)

---------------------------------------------------------------------------
(***************************************************************************)
(* update_eigen_probe, lines 320-475.  R[k], patches[k] and diff[k][mode]  *)
(* are the fields of the k-th position of the batch; c is the eigen index  *)
(* (1 is the first eigen probe, in column 2 of the weights of the model)   *)
(* and m the mode, counted from 0 as in the code.                          *)
(***************************************************************************)
\* mutant: the weights of every position of the device
all_weights(weights, batch, c, m) ==
    Arr([p \in 1..Len(weights) |-> weights[p][c + 1][m + 1]])

\* line 322: weights[..., batches[batch_index], c:c + 1, m:m + 1, None, None]
batch_weights(weights, batch, c, m) ==
    Arr([k \in 1..Len(batch) |-> weights[batch[k]][c + 1][m + 1]])

\* np.mean of the pixels of a field
FieldMean(x) == RMean(x)

\* _get_update, lines 320-335
get_update(R, eigen_probe, weights, batch, c, m) ==
    LET w == batch_weights(weights, batch, c, m)
        norm_weights == norm2(w)
        eigen == eigen_probe[c][m + 1]
        proj(k) == Arr([x \in 1..Len(eigen) |->
                       RDiv(RAdd(RMul(R[k][x], eigen[x]), w[k]), norm_weights)])
    IN  IF norm_weights = Rat(0, 1)
        THEN [raised |-> "ValueError", update |-> <<>>]
        ELSE [raised |-> "",
              update |-> Arr([x \in 1..Len(eigen) |->
                             RMean(Arr([k \in 1..Len(batch) |->
                                 RMul(R[k][x], FieldMean(proj(k)))]))])]

\* comm.Allreduce_mean followed by comm.pool.bcast: every device receives
\* the mean over the devices
Allreduce_mean_bcast(values) ==
    LET reduced == Arr([x \in 1..Len(values[1]) |->
                       RMean(Arr([d \in 1..Len(values) |-> values[d][x]]))])
    IN  Arr([d \in 1..Len(values) |-> reduced])

\* mutant: the test of the values is skipped
all_isfinite_skipped(values) == TRUE

\* np.all(np.isfinite(values)), lines 349 and 369
all_isfinite(values) == \A i \in 1..Len(values) : isfinite(values[i])

\* the elements of eigen_probe
Elements(eigen_probe) ==
    Arr([i \in 1..(Len(eigen_probe) * Len(eigen_probe[1])
                     * Len(eigen_probe[1][1])) |->
        LET x == ((i - 1) % Len(eigen_probe[1][1])) + 1
            r == (i - 1) \div Len(eigen_probe[1][1])
        IN  eigen_probe[(r \div Len(eigen_probe[1])) + 1]
                       [(r % Len(eigen_probe[1])) + 1][x]])

\* mutant: a zero update leaves the mode as it is
updated_mode_guarded(eigen, update, beta) ==
    IF mnorm(update) = Rat(0, 1) THEN eigen
    ELSE LET stepped == Plus(eigen, Over(Scale(update, beta), mnorm(update)))
         IN  Over(stepped, mnorm(stepped))

\* lines 339-348: the relaxed update of the mode and its renormalisation
updated_mode(eigen, update, beta) ==
    LET stepped == Plus(eigen, Over(Scale(update, beta), mnorm(update)))
    IN  Over(stepped, mnorm(stepped))

\* _get_d, lines 338-360
get_d(patches, diff, eigen_probe, update, beta, c, m) ==
    LET eigen == updated_mode(eigen_probe[c][m + 1], update, beta)
        new == [eigen_probe EXCEPT ![c][m + 1] = eigen]
        phi == Arr([k \in 1..Len(patches) |->
                   Arr([x \in 1..Len(eigen) |-> RMul(patches[k][x], eigen[x])])])
        d == Arr([k \in 1..Len(patches) |->
                 FieldMean(Arr([x \in 1..Len(eigen) |->
                               RMul(phi[k][x], phi[k][x])]))])
    IN  [asserted |-> ~all_isfinite(Elements(new)),
         eigen_probe |-> new,
         n |-> Arr([k \in 1..Len(patches) |->
                   FieldMean(Arr([x \in 1..Len(eigen) |->
                                 RMul(diff[k][m + 1][x], phi[k][x])]))]),
         d |-> d,
         d_mean |-> <<RMean(d)>>]

\* lines 365-367: n / (d + 0.1 * d_mean)
weight_update(n, d, d_mean) ==
    Arr([k \in 1..Len(n) |->
        RDiv(n[k], RAdd(d[k], RMul(Rat(1, 10), d_mean[1])))])

\* mutant: the weight update replaces the previous value
get_weights_mean_assigned(n, d, d_mean, weights, batch, c, m) ==
    LET update == weight_update(n, d, d_mean)
    IN  [asserted |-> ~all_isfinite(update),
         weight_update |-> update,
         weights |-> Arr([p \in 1..Len(weights) |->
                         IF \E k \in 1..Len(batch) : batch[k] = p
                         THEN [weights[p] EXCEPT ![c + 1][m + 1] =
                                  update[CHOOSE k \in 1..Len(batch) :
                                             batch[k] = p]]
                         ELSE weights[p]])]

\* _get_weights_mean, lines 363-373
get_weights_mean(n, d, d_mean, weights, batch, c, m) ==
    LET update == weight_update(n, d, d_mean)
    IN  [asserted |-> ~all_isfinite(update),
         weight_update |-> update,
         weights |-> Arr([p \in 1..Len(weights) |->
                         IF \E k \in 1..Len(batch) : batch[k] = p
                         THEN [weights[p] EXCEPT ![c + 1][m + 1] =
                                  RAdd(@, update[CHOOSE k \in 1..Len(batch) :
                                                     batch[k] = p])]
                         ELSE weights[p]])]

---------------------------------------------------------------------------
(***************************************************************************)
(* The calls of update_eigen_probe on two devices, each with MaxPos scan   *)
(* positions, two eigen probes, two modes and fields of one pixel.         *)
(***************************************************************************)
\* batches[batch_index] of a device: the first k positions
Batches == {Arr([k \in 1..j |-> k]) : j \in 1..MaxPos}

\* (POSI, EIGEN + 1, SHARED) weights.  First mode: all 1, or 0 in the eigen
\* columns of the first position and 2 in those of the others; second mode:
\* 1 in the first column and 3 in the eigen columns
UpdateWeights ==
    {Arr([p \in 1..MaxPos |->
         Arr([c \in 1..3 |->
             <<Rat(1, 1), Rat(IF c = 1 THEN 1 ELSE 3, 1)>>])]),
     Arr([p \in 1..MaxPos |->
         Arr([c \in 1..3 |->
             <<Rat(IF c = 1 THEN 1 ELSE IF p = 1 THEN 0 ELSE 2, 1),
               Rat(IF c = 1 THEN 1 ELSE 3, 1)>>])])}

\* (1, EIGEN, SHARED, WIDE * HIGH) eigen probes
UpdateEigenProbes ==
    {<<<<<<Rat(1, 1)>>, <<Rat(1, 2)>>>>, <<<<Rat(1, 1)>>, <<Rat(1, 2)>>>>>>,
     <<<<<<Rat(-1, 10)>>, <<Rat(1, 2)>>>>, <<<<Rat(-1, 10)>>, <<Rat(1, 2)>>>>>>,
     <<<<<<Rat(1, 1)>>, <<Rat(1, 2)>>>>, <<<<inf>>, <<Rat(1, 2)>>>>>>}

Residuals == {0, 1}
PatchValues == {0, 1}

\* the inputs of one device: R[k] = r * k, patches[k] = q, diff[k] = k in
\* the first mode and k + 1 in the second on the positions of the batch
DeviceInputs(batches) ==
    {[weights |-> w, batch |-> b,
      R |-> Arr([k \in 1..Len(b) |-> <<Rat(r * k, 1)>>]),
      patches |-> Arr([k \in 1..Len(b) |-> <<Rat(q, 1)>>]),
      diff |-> Arr([k \in 1..Len(b) |-> <<<<Rat(k, 1)>>, <<Rat(k + 1, 1)>>>>])] :
        w \in UpdateWeights, b \in batches, r \in Residuals, q \in PatchValues}

\* comm.pool.map has returned: every device has run the function
map_finished(dev) == \A d \in 1..Len(dev) : dev[d].pc # "todo"

\* lines 376-430: update_eigen_probe(comm, R, eigen_probe, weights, patches,
\* diff, batches, batch_index, beta = 0.1, c, m)
update_call ==
    /\ pr_pc = "idle"
    /\ \E eigen_probe \in UpdateEigenProbes, c \in 1..2, m \in 0..1,
          i1 \in DeviceInputs(Batches),
          i2 \in DeviceInputs({Arr([k \in 1..MaxPos |-> k])}) :
          /\ pr_call' = {[fn |-> "update_eigen_probe",
                          eigen_probe |-> eigen_probe,
                          inputs |-> <<i1, i2>>,
                          beta |-> Rat(1, 10), c |-> c, m |-> m]}
          /\ pr_dev' = Arr([d \in 1..2 |->
                          [pc |-> "todo",
                           eigen_probe |-> eigen_probe,
                           weights |-> <<i1, i2>>[d].weights,
                           update |-> <<>>, n |-> <<>>, d |-> <<>>,
                           d_mean |-> <<>>, weight_update |-> <<>>]])
    /\ pr_pc' = "get_update"
    /\ pr_red' = <<>>
    /\ pr_out' = {}
    /\ UNCHANGED <<pd_vars, rs_vars, po_vars, fn_vars, ss_vars, sr_vars>>

\* lines 431-440: one device runs _get_update
update_get_update(d) ==
    /\ pr_pc = "get_update"
    /\ pr_dev[d].pc = "todo"
    /\ \E call \in pr_call :
          LET in == call.inputs[d]
              r == get_update(in.R, pr_dev[d].eigen_probe, pr_dev[d].weights,
                              in.batch, call.c, call.m)
          IN  pr_dev' = [pr_dev EXCEPT ![d] =
                 [@ EXCEPT !.pc = IF r.raised = "" THEN "done" ELSE "raised",
                           !.update = r.update]]
    /\ UNCHANGED <<pr_pc, pr_call, pr_red, pr_out>>
    /\ UNCHANGED <<pd_vars, rs_vars, po_vars, fn_vars, ss_vars, sr_vars>>

\* line 327: the ValueError of a device leaves update_eigen_probe
update_raise ==
    /\ pr_pc = "get_update"
    /\ map_finished(pr_dev)
    /\ \E d \in 1..Len(pr_dev) : pr_dev[d].pc = "raised"
    /\ pr_pc' = "ValueError"
    /\ UNCHANGED <<pr_call, pr_dev, pr_red, pr_out>>
    /\ UNCHANGED <<pd_vars, rs_vars, po_vars, fn_vars, ss_vars, sr_vars>>

\* lines 441-444: update = comm.pool.bcast([comm.Allreduce_mean(update)])
update_reduce_update ==
    /\ pr_pc = "get_update"
    /\ map_finished(pr_dev)
    /\ \A d \in 1..Len(pr_dev) : pr_dev[d].pc = "done"
    /\ pr_red' = Allreduce_mean_bcast(
                     Arr([d \in 1..Len(pr_dev) |-> pr_dev[d].update]))
    /\ pr_dev' = Arr([d \in 1..Len(pr_dev) |-> [pr_dev[d] EXCEPT !.pc = "todo"]])
    /\ pr_pc' = "get_d"
    /\ UNCHANGED <<pr_call, pr_out>>
    /\ UNCHANGED <<pd_vars, rs_vars, po_vars, fn_vars, ss_vars, sr_vars>>

\* lines 446-455: one device runs _get_d on the reduced update; the eigen
\* probe of the device is changed in place before the assertion
update_get_d(d) ==
    /\ pr_pc = "get_d"
    /\ pr_dev[d].pc = "todo"
    /\ \E call \in pr_call :
          LET in == call.inputs[d]
              r == get_d(in.patches, in.diff, pr_dev[d].eigen_probe,
                         pr_red[d], call.beta, call.c, call.m)
          IN  pr_dev' = [pr_dev EXCEPT ![d] =
                 IF r.asserted
                 THEN [@ EXCEPT !.pc = "asserted",
                                !.eigen_probe = r.eigen_probe]
                 ELSE [@ EXCEPT !.pc = "done",
                                !.eigen_probe = r.eigen_probe,
                                !.n = r.n, !.d = r.d, !.d_mean = r.d_mean]]
    /\ UNCHANGED <<pr_pc, pr_call, pr_red, pr_out>>
    /\ UNCHANGED <<pd_vars, rs_vars, po_vars, fn_vars, ss_vars, sr_vars>>

\* lines 349 and 369: the AssertionError of a device leaves
\* update_eigen_probe
update_assert ==
    /\ pr_pc \in {"get_d", "get_weights_mean"}
    /\ map_finished(pr_dev)
    /\ \E d \in 1..Len(pr_dev) : pr_dev[d].pc = "asserted"
    /\ pr_pc' = "AssertionError"
    /\ UNCHANGED <<pr_call, pr_dev, pr_red, pr_out>>
    /\ UNCHANGED <<pd_vars, rs_vars, po_vars, fn_vars, ss_vars, sr_vars>>

\* line 457: d_mean = comm.pool.bcast([comm.Allreduce_mean(d_mean)])
update_reduce_d_mean ==
    /\ pr_pc = "get_d"
    /\ map_finished(pr_dev)
    /\ \A d \in 1..Len(pr_dev) : pr_dev[d].pc = "done"
    /\ pr_red' = Allreduce_mean_bcast(
                     Arr([d \in 1..Len(pr_dev) |-> pr_dev[d].d_mean]))
    /\ pr_dev' = Arr([d \in 1..Len(pr_dev) |-> [pr_dev[d] EXCEPT !.pc = "todo"]])
    /\ pr_pc' = "get_weights_mean"
    /\ UNCHANGED <<pr_call, pr_out>>
    /\ UNCHANGED <<pd_vars, rs_vars, po_vars, fn_vars, ss_vars, sr_vars>>

\* lines 462-473: one device runs _get_weights_mean on the reduced d_mean
update_get_weights_mean(d) ==
    /\ pr_pc = "get_weights_mean"
    /\ pr_dev[d].pc = "todo"
    /\ \E call \in pr_call :
          LET in == call.inputs[d]
              r == get_weights_mean(pr_dev[d].n, pr_dev[d].d, pr_red[d],
                                    pr_dev[d].weights, in.batch,
                                    call.c, call.m)
          IN  pr_dev' = [pr_dev EXCEPT ![d] =
                 IF r.asserted
                 THEN [@ EXCEPT !.pc = "asserted",
                                !.weight_update = r.weight_update]
                 ELSE [@ EXCEPT !.pc = "done",
                                !.weight_update = r.weight_update,
                                !.weights = r.weights]]
    /\ UNCHANGED <<pr_pc, pr_call, pr_red, pr_out>>
    /\ UNCHANGED <<pd_vars, rs_vars, po_vars, fn_vars, ss_vars, sr_vars>>

\* line 475: return eigen_probe, weights
update_return ==
    /\ pr_pc = "get_weights_mean"
    /\ map_finished(pr_dev)
    /\ \A d \in 1..Len(pr_dev) : pr_dev[d].pc = "done"
    /\ pr_out' = {[eigen_probe |->
                      Arr([d \in 1..Len(pr_dev) |-> pr_dev[d].eigen_probe]),
                   weights |->
                      Arr([d \in 1..Len(pr_dev) |-> pr_dev[d].weights])]}
    /\ pr_pc' = "returned"
    /\ UNCHANGED <<pr_call, pr_dev, pr_red>>
    /\ UNCHANGED <<pd_vars, rs_vars, po_vars, fn_vars, ss_vars, sr_vars>>

InitUpdate == PdIdle /\ RsIdle /\ PoIdle /\ PrIdle /\ FnIdle /\ SsIdle /\ SrIdle

NextUpdate ==
    \/ update_call
    \/ \E d \in 1..2 : update_get_update(d)
    \/ update_raise
    \/ update_reduce_update
    \/ \E d \in 1..2 : update_get_d(d)
    \/ update_assert
    \/ update_reduce_d_mean
    \/ \E d \in 1..2 : update_get_weights_mean(d)
    \/ update_return

SpecUpdate == InitUpdate /\ [][NextUpdate]_vars

---------------------------------------------------------------------------
\* the calls of update_eigen_probe in progress or finished
UpdateCalls == {call \in pr_call : call.fn = "update_eigen_probe"}

\* on device d the weights at (c, m) of every position of the batch are 0
Degenerate(call, d) ==
    \A k \in 1..Len(call.inputs[d].batch) :
        call.inputs[d].weights[call.inputs[d].batch[k]][call.c + 1][call.m + 1]
            = Rat(0, 1)

\* C19: when on some device the weights at (c, m) of every position of the
\* batch are exactly zero, that device raises in _get_update, the call never
\* goes beyond its first phase and never returns, it ends with ValueError
\* once the first map has finished, and the eigen probe and the weights of
\* every device are as they were passed.
C19_DegenerateBatchRaises ==
    \A call \in UpdateCalls :
        (\E d \in 1..Len(pr_dev) : Degenerate(call, d)) =>
            /\ pr_pc \in {"get_update", "ValueError"}
            /\ pr_out = {}
            /\ \A d \in 1..Len(pr_dev) :
                /\ Degenerate(call, d) => pr_dev[d].pc \in {"todo", "raised"}
                /\ pr_dev[d].eigen_probe = call.eigen_probe
                /\ pr_dev[d].weights = call.inputs[d].weights
            /\ pr_pc = "get_update" /\ map_finished(pr_dev)
                  => ENABLED update_raise /\ ~ENABLED update_reduce_update

\* a call has ended with ValueError because the batch of one device had only
\* zero weights, although that device has a non-zero weight outside the batch
\* and the other device has none that is zero
C19_Witness ==
    /\ pr_pc = "ValueError"
    /\ \E call \in UpdateCalls :
          /\ Degenerate(call, 1)
          /\ ~Degenerate(call, 2)
          /\ \E p \in 1..Len(call.inputs[1].weights) :
                call.inputs[1].weights[p][call.c + 1][call.m + 1] # Rat(0, 1)
          /\ pr_dev[2].pc = "done"

---------------------------------------------------------------------------
\* every element of eigen_probe is finite
FiniteProbe(eigen_probe) ==
    \A e \in 1..Len(eigen_probe) :
    \A m \in 1..Len(eigen_probe[e]) :
    \A x \in 1..Len(eigen_probe[e][m]) : isfinite(eigen_probe[e][m][x])

\* every weight increment computed on a device is finite
FiniteIncrements(dev) ==
    \A k \in 1..Len(dev.weight_update) : isfinite(dev.weight_update[k])

\* C20: when update_eigen_probe has returned, every element of the returned
\* eigen probes and every weight increment that was added is finite; a call
\* in which a device holds a non-finite eigen probe value does not get beyond
\* _get_d, one in which a device computed a non-finite weight increment does
\* not get beyond _get_weights_mean and adds no increment on that device,
\* and a call that ended with AssertionError has returned nothing.
C20_ReturnedValuesFinite ==
    \A call \in UpdateCalls :
        /\ pr_pc = "returned" =>
              /\ \A out \in pr_out, d \in 1..Len(pr_dev) :
                    FiniteProbe(out.eigen_probe[d])
              /\ \A d \in 1..Len(pr_dev) : FiniteIncrements(pr_dev[d])
        /\ \A d \in 1..Len(pr_dev) :
              /\ ~FiniteProbe(pr_dev[d].eigen_probe) =>
                    pr_pc \in {"get_update", "ValueError", "get_d",
                               "AssertionError"}
              /\ ~FiniteIncrements(pr_dev[d]) =>
                    /\ pr_pc \in {"get_weights_mean", "AssertionError"}
                    /\ pr_dev[d].weights = call.inputs[d].weights
        /\ pr_pc = "AssertionError" =>
              /\ pr_out = {}
              /\ \E d \in 1..Len(pr_dev) :
                    \/ ~FiniteProbe(pr_dev[d].eigen_probe)
                    \/ ~FiniteIncrements(pr_dev[d])

\* a call whose eigen probes were finite when passed has ended with
\* AssertionError because the update made an eigen probe value non-finite
C20_Witness ==
    /\ pr_pc = "AssertionError"
    /\ \E call \in UpdateCalls :
          /\ FiniteProbe(call.eigen_probe)
          /\ \E d \in 1..Len(pr_dev) :
                /\ pr_dev[d].pc = "asserted"
                /\ ~FiniteProbe(pr_dev[d].eigen_probe)

---------------------------------------------------------------------------
(***************************************************************************)
(* The calls of constrain_variable_probe and of update_eigen_probe.        *)
(***************************************************************************)
InitProbe == PdIdle /\ RsIdle /\ PoIdle /\ PrIdle /\ FnIdle /\ SsIdle /\ SrIdle

NextProbe ==
    \/ NextConstrain
    \/ NextUpdate

SpecProbe == InitProbe /\ [][NextProbe]_vars

\* the calls of constrain_variable_probe in progress or finished
ConstrainCalls == {call \in pr_call : call.fn = "constrain_variable_probe"}

\* the power of every eigen slot and mode summed over the devices
SummedPower ==
    Arr([e \in 1..Len(pr_dev[1].power) |->
        Arr([m \in 1..Len(pr_dev[1].power[e]) |-> GlobalPower(e, m)])])

\* the mean over the devices of the one-element arrays values[d]
DeviceMean(values) ==
    Arr([x \in 1..Len(values[1]) |->
        RMean(Arr([d \in 1..Len(values) |-> values[d][x]]))])

\* every device has completed the preceding map and holds the reduced value
\* when a device is in a later phase
BarrierPassed ==
    /\ \A call \in ConstrainCalls :
          (pr_pc # "map1" \/ \E d \in 1..Len(pr_dev) :
                                 pr_dev[d].pc \in {"phase2", "done2"}) =>
              /\ pr_pc \in {"map2", "returned"}
              /\ \A d \in 1..Len(pr_dev) :
                    /\ pr_dev[d].pc \in {"phase2", "done2"}
                    /\ pr_dev[d].power # <<>>
                    /\ pr_red[d] = SummedPower
    /\ \A call \in UpdateCalls :
          /\ (pr_pc = "get_d" \/ \E d \in 1..Len(pr_dev) : pr_dev[d].n # <<>>) =>
              /\ pr_pc \in {"get_d", "get_weights_mean", "AssertionError",
                            "returned"}
              /\ \A d \in 1..Len(pr_dev) : pr_dev[d].update # <<>>
              /\ pr_pc = "get_d" =>
                    \A d \in 1..Len(pr_dev) :
                        pr_red[d] = DeviceMean(Arr([i \in 1..Len(pr_dev) |->
                                                     pr_dev[i].update]))
          /\ (pr_pc = "get_weights_mean"
                \/ \E d \in 1..Len(pr_dev) : pr_dev[d].weight_update # <<>>) =>
              /\ pr_pc \in {"get_weights_mean", "AssertionError", "returned"}
              /\ \A d \in 1..Len(pr_dev) : pr_dev[d].d_mean # <<>>
              /\ pr_pc = "get_weights_mean" =>
                    \A d \in 1..Len(pr_dev) :
                        pr_red[d] = DeviceMean(Arr([i \in 1..Len(pr_dev) |->
                                                     pr_dev[i].d_mean]))

\* a step of device d in a later phase computes from the arrays of device d
\* and the reduced value, and changes the arrays of no other device
LaterPhaseStep(d) ==
    /\ pr_dev[d].pc = "phase2" /\ pr_dev'[d].pc = "done2" =>
          LET r == constrain_variable_probe2(pr_dev[d].variable_probe,
                                             pr_dev[d].weights, SummedPower)
          IN  /\ pr_dev'[d].variable_probe = r.variable_probe
              /\ pr_dev'[d].weights = r.weights
    /\ pr_pc = "get_d" /\ pr_dev[d].pc = "todo" /\ pr_dev'[d].pc # "todo" =>
          \A call \in pr_call :
              pr_dev'[d].eigen_probe =
                  get_d(call.inputs[d].patches, call.inputs[d].diff,
                        pr_dev[d].eigen_probe,
                        DeviceMean(Arr([i \in 1..Len(pr_dev) |->
                                        pr_dev[i].update])),
                        call.beta, call.c, call.m).eigen_probe
    /\ pr_pc = "get_weights_mean" /\ pr_dev[d].pc = "todo"
          /\ pr_dev'[d].pc = "done" =>
          \A call \in pr_call :
              pr_dev'[d].weights =
                  get_weights_mean(pr_dev[d].n, pr_dev[d].d,
                        DeviceMean(Arr([i \in 1..Len(pr_dev) |->
                                        pr_dev[i].d_mean])),
                        pr_dev[d].weights, call.inputs[d].batch,
                        call.c, call.m).weights
    /\ pr_dev'[d] # pr_dev[d] /\ pr_pc' = pr_pc =>
          \A i \in 1..Len(pr_dev) : i # d => pr_dev'[i] = pr_dev[i]

\* C18: in constrain_variable_probe and update_eigen_probe, whenever a
\* device is in a later phase every device has completed the preceding map
\* and the reduction has delivered its result to every device; a step of a
\* device in a later phase uses only the arrays of that device and the
\* reduced value.
C18_PhasesSeparatedByReduction ==
    /\ []BarrierPassed
    /\ [][Len(pr_dev') = Len(pr_dev) =>
             \A d \in 1..Len(pr_dev) : LaterPhaseStep(d)]_vars

\* a device has completed phase 2 on the reduced power, which differs from
\* the power of its own positions, while the other device has not yet run
\* phase 2
C18_Witness ==
    /\ pr_pc = "map2"
    /\ pr_dev[1].pc = "done2"
    /\ pr_dev[2].pc = "phase2"
    /\ pr_red[1] # pr_dev[1].power
    /\ pr_red[1] # pr_dev[2].power
    /\ sorted_slots(pr_red[1], 1) # sorted_slots(pr_dev[2].power, 1)

---------------------------------------------------------------------------
(***************************************************************************)
(* The calls of AffineTransform: the constructor, astuple and __call__.    *)
(***************************************************************************)
\* AffineTransform(t0, t1, scale0, scale1, angle, shear), lines 21-26
AffineTransform(t0, t1, scale0, scale1, angle, shear) ==
    [t0 |-> t0, t1 |-> t1, scale0 |-> scale0, scale1 |-> scale1,
     angle |-> angle, shear |-> shear]

\* AffineTransform.astuple, lines 53-62
astuple(T) == <<T.t0, T.t1, T.scale0, T.scale1, T.angle, T.shear>>

Transforms ==
    {AffineTransform(t0, t1, scale0, scale1, angle, shear) :
        t0 \in {0, 1}, t1 \in {0, 2}, scale0 \in {1, 2}, scale1 \in {1, 3},
        angle \in 0..3, shear \in {0, 1}}

PointArrays == {<<<<0, 0>>>>, <<<<1, 2>>, <<3, -1>>>>}

\* line 67-68: T(x)
affine_call ==
    /\ \E T \in Transforms \cup {Identity}, x \in PointArrays :
          /\ fn_call' = {[fn |-> "AffineTransform.__call__", T |-> T, x |-> x]}
          /\ fn_out' = {AffineTransform_call(T, x)}
    /\ UNCHANGED <<pd_vars, rs_vars, po_vars, pr_vars, ss_vars, sr_vars>>

\* lines 53-62: AffineTransform(*T.astuple())
affine_astuple ==
    /\ \E T \in Transforms :
          LET t == astuple(T)
          IN  /\ fn_call' = {[fn |-> "AffineTransform.astuple", T |-> T,
                              x |-> <<>>]}
              /\ fn_out' = {AffineTransform(t[1], t[2], t[3], t[4], t[5], t[6])}
    /\ UNCHANGED <<pd_vars, rs_vars, po_vars, pr_vars, ss_vars, sr_vars>>

InitAffine == PdIdle /\ RsIdle /\ PoIdle /\ PrIdle /\ FnIdle /\ SsIdle /\ SrIdle

NextAffine == affine_call \/ affine_astuple

SpecAffine == InitAffine /\ [][NextAffine]_vars

\* the entries of diag(scale0, scale1) . rotation(angle) . [[1, 0], [shear, 1]]
M11(T) == T.scale0 * cos(T.angle) + T.scale0 * sin(T.angle) * T.shear
M12(T) == T.scale0 * sin(T.angle)
M21(T) == T.scale1 * cos(T.angle) * T.shear - T.scale1 * sin(T.angle)
M22(T) == T.scale1 * cos(T.angle)

\* C22: applying an AffineTransform T to points P returns, for every point,
\* (P + (t0, t1)) @ M with M = diag(scale0, scale1) . rotation(angle) .
\* [[1, 0], [shear, 1]]; the default transform returns P; and
\* AffineTransform(*T.astuple()) is T.
C22_TranslateThenMatrix ==
    \A call \in fn_call, out \in fn_out :
        /\ call.fn = "AffineTransform.__call__" =>
              /\ Len(out) = Len(call.x)
              /\ \A i \in 1..Len(call.x) :
                    LET p1 == call.x[i][1] + call.T.t0
                        p2 == call.x[i][2] + call.T.t1
                    IN  out[i] = <<p1 * M11(call.T) + p2 * M21(call.T),
                                   p1 * M12(call.T) + p2 * M22(call.T)>>
              /\ call.T = AffineTransform(0, 0, 1, 1, 0, 0) => out = call.x
        /\ call.fn = "AffineTransform.astuple" => out = call.T

\* a transform with a translation, a quarter turn, a shear and two different
\* scales was applied, and adding the translation after the matrix would
\* have given other points
C22_Witness ==
    \E call \in fn_call, out \in fn_out :
        /\ call.fn = "AffineTransform.__call__"
        /\ call.T.t0 # 0 /\ call.T.t1 # 0 /\ call.T.shear # 0
        /\ call.T.angle = 1 /\ call.T.scale0 # call.T.scale1
        /\ Len(call.x) = 2
        /\ out # AffineTransform_call_after(call.T, call.x)

---------------------------------------------------------------------------
\* C25: the scan returned by update_positions_pd is, at every position i,
\* scan[i] - step * (grad[i] - mean(grad)); when every position has the same
\* grad, and so when there is one position, it is the scan that was passed.
C25_MovedByDeviationFromMean ==
    pd_pc = "returned" =>
        \A c \in pd_call, r \in pd_result :
            LET N == Len(c.scan.pos)
            IN  /\ Len(r.scan.pos) = N
                /\ \A i \in 1..N, ax \in 1..2 :
                      r.scan.pos[i][ax] * c.scan.den * c.step.den * N
                        = r.scan.den
                            * (c.scan.pos[i][ax] * c.step.den * N
                                - c.step.num * c.scan.den
                                    * (N * c.grad[i][ax] - SumAxis(c.grad, ax)))
                /\ (\A i \in 1..N : c.grad[i] = c.grad[1]) =>
                      \A i \in 1..N, ax \in 1..2 :
                          r.scan.pos[i][ax] * c.scan.den
                              = c.scan.pos[i][ax] * r.scan.den

\* a call with one position and a non-zero grad has returned
C25_Witness ==
    /\ pd_pc = "returned"
    /\ \E c \in pd_call :
          /\ Len(c.scan.pos) = 1
          /\ c.grad[1] # <<0, 0>>

---------------------------------------------------------------------------
\* C28: in every pass the subset fit starts from the transform kept so far,
\* which is the caller's transform while no refit has been accepted, and the
\* inlier refit starts from the subset candidate of the same pass; each pass
\* uses min_sample indices of 1..N, repetitions allowed, the pass counter
\* advances by one per pass and the call returns only after max_iter passes.
C28_SeedsAndPassCount ==
    /\ [](\A a \in rs_args :
            /\ rs_best = Inf => rs_transform = a.transform
            /\ rs_i <= a.max_iter
            /\ rs_pc = "done" => rs_i = a.max_iter
            /\ \A L \in rs_last :
                  LET N == Len(a.positions0)
                      w1 == ransac_fit_weights(a.weights, L.subset)
                      w2 == ransac_fit_weights(a.weights, L.refit_idx)
                  IN  /\ DOMAIN L.subset = 1..a.min_sample
                      /\ \A k \in 1..a.min_sample : L.subset[k] \in 1..N
                      /\ \E f \in estimate_global_transformation(
                                     Select(a.positions0, L.subset),
                                     Select(a.positions1, L.subset),
                                     w1, L.seed) :
                            f.transform = L.candidate
                      /\ L.refit \subseteq
                            estimate_global_transformation(
                                Select(a.positions0, L.refit_idx),
                                Select(a.positions1, L.refit_idx),
                                w2, L.candidate))
    /\ [][/\ rs_last' # rs_last =>
                /\ \A L \in rs_last' : L.seed = rs_transform
                /\ rs_i' = rs_i + 1
          /\ rs_i' # rs_i => (rs_i' = rs_i + 1 \/ rs_i' = 0)
          /\ (rs_pc = "loop" /\ rs_pc' = "done") =>
                \A a \in rs_args : rs_i = a.max_iter]_vars

\* a returned call whose last pass drew one index twice, started its subset
\* fit from an earlier accepted refit that is not the caller's transform,
\* and refitted from a subset candidate that is not that starting transform
C28_Witness ==
    /\ rs_pc = "done"
    /\ rs_i >= 2
    /\ \E a \in rs_args, L \in rs_last :
          /\ L.subset[1] = L.subset[2]
          /\ L.seed # a.transform
          /\ L.candidate # L.seed
          /\ L.refit # {}

---------------------------------------------------------------------------
\* the update of every device is known and their mean over the devices is
\* zero at every pixel
ZeroMeanUpdate ==
    /\ \A d \in 1..Len(pr_dev) : pr_dev[d].update # <<>>
    /\ LET reduced == Allreduce_mean_bcast(
                          Arr([d \in 1..Len(pr_dev) |-> pr_dev[d].update]))[1]
       IN  \A x \in 1..Len(reduced) : reduced[x] = Rat(0, 1)

\* C26: once the update averaged over the devices is exactly zero, the call
\* of update_eigen_probe never gets beyond _get_d and returns nothing: every
\* device that runs _get_d fails its assertion after it has overwritten slot
\* (c - 1, m) of its eigen probe with non-finite values, the other slots being
\* as passed, and the call ends with AssertionError when the map has finished.
C26_ZeroUpdateAsserts ==
    \A call \in UpdateCalls :
        (pr_pc \notin {"get_update", "ValueError"} /\ ZeroMeanUpdate) =>
            /\ pr_pc \in {"get_d", "AssertionError"}
            /\ pr_out = {}
            /\ \A d \in 1..Len(pr_dev) :
                  /\ pr_dev[d].pc \in {"todo", "asserted"}
                  /\ pr_dev[d].weights = call.inputs[d].weights
                  /\ pr_dev[d].pc = "todo" =>
                        pr_dev[d].eigen_probe = call.eigen_probe
                  /\ pr_dev[d].pc = "asserted" =>
                        \A e \in 1..Len(call.eigen_probe) :
                            IF e = call.c
                            THEN \A x \in 1..Len(call.eigen_probe[e][call.m + 1]) :
                                    ~isfinite(pr_dev[d].eigen_probe[e][call.m + 1][x])
                            ELSE pr_dev[d].eigen_probe[e] = call.eigen_probe[e]
            /\ pr_pc = "get_d" /\ map_finished(pr_dev)
                  => ENABLED update_assert /\ ~ENABLED update_reduce_d_mean

\* a call has ended with AssertionError on a zero averaged update: the
\* residual is zero on every device, the weights of the batches are not, the
\* eigen probes passed were finite and both devices have overwritten theirs
C26_Witness ==
    /\ pr_pc = "AssertionError"
    /\ ZeroMeanUpdate
    /\ \E call \in UpdateCalls :
          /\ FiniteProbe(call.eigen_probe)
          /\ \A d \in 1..Len(pr_dev) :
                /\ ~Degenerate(call, d)
                /\ \A k \in 1..Len(call.inputs[d].R) :
                      call.inputs[d].R[k] = <<Rat(0, 1)>>
                /\ pr_dev[d].pc = "asserted"
                /\ pr_dev[d].eigen_probe # call.eigen_probe

---------------------------------------------------------------------------
\* C23: throughout a call of update_eigen_probe every weight of a device
\* outside (positions of the batch, column c, mode m) and every eigen probe
\* slot other than (c - 1, m) is as it was passed; when the call has returned,
\* the weight at (batch[k], c, m) is the value passed plus the k-th weight
\* update, and the returned arrays are those of the devices.
C23_OnlyBatchColumnModeChange ==
    \A call \in UpdateCalls :
    \A d \in 1..Len(pr_dev) :
        LET in == call.inputs[d]
            InBatch(p) == \E k \in 1..Len(in.batch) : in.batch[k] = p
            At(p) == CHOOSE k \in 1..Len(in.batch) : in.batch[k] = p
        IN  /\ \A p \in 1..Len(in.weights) :
               \A col \in 1..Len(in.weights[p]) :
               \A mode \in 1..Len(in.weights[p][col]) :
                  IF InBatch(p) /\ col = call.c + 1 /\ mode = call.m + 1
                  THEN pr_pc = "returned" =>
                          pr_dev[d].weights[p][col][mode] =
                              RAdd(in.weights[p][col][mode],
                                   pr_dev[d].weight_update[At(p)])
                  ELSE pr_dev[d].weights[p][col][mode] = in.weights[p][col][mode]
            /\ \A e \in 1..Len(call.eigen_probe) :
               \A mode \in 1..Len(call.eigen_probe[e]) :
                  (e # call.c \/ mode # call.m + 1) =>
                      pr_dev[d].eigen_probe[e][mode] = call.eigen_probe[e][mode]
            /\ pr_pc = "returned" =>
                  \A out \in pr_out :
                      /\ out.weights[d] = pr_dev[d].weights
                      /\ out.eigen_probe[d] = pr_dev[d].eigen_probe

\* a call on the second mode has returned; the batch of the first device
\* leaves a position out, and at a position of the batch a non-zero update
\* was added to a non-zero weight and the eigen probe slot has changed
C23_Witness ==
    /\ pr_pc = "returned"
    /\ \E call \in UpdateCalls :
          /\ call.m = 1
          /\ Len(call.inputs[1].batch) < Len(call.inputs[1].weights)
          /\ pr_dev[1].weight_update[1] # Rat(0, 1)
          /\ call.inputs[1].weights[1][call.c + 1][call.m + 1] # Rat(0, 1)
          /\ pr_dev[1].weights[1][call.c + 1][call.m + 1]
                # pr_dev[1].weight_update[1]
          /\ pr_dev[1].eigen_probe[call.c][call.m + 1]
                # call.eigen_probe[call.c][call.m + 1]

---------------------------------------------------------------------------
(***************************************************************************)
(* init_varying_probe, lines 659-722, and the arrays it returns under the  *)
(* calls of constrain_variable_probe and update_eigen_probe that follow.   *)
(* The draws of np.random.rand and tike.random.numpy_complex are arguments *)
(* of the model: rand[p][c][m] and noise[e][m].  None is the empty set.    *)
(***************************************************************************)
MaxCalls == 2      \* calls that follow init_varying_probe

\* mutant: the unused weights keep the value drawn for them
unused_weights_kept(w) == w

\* line 708: weights[..., 1:, probes_with_modes:] = 0
unused_weights(w) == Rat(0, 1)

init_varying_probe(N, shared, num_eigen_probes, modes, rand, noise) ==
    LET pwm == IF modes > 0 THEN modes ELSE 0
        drawn == Arr([p \in 1..N |->
                     Arr([c \in 1..num_eigen_probes |->
                         Arr([m \in 1..shared |-> rand[p][c][m]])])])
        mean_drawn == Arr([c \in 1..num_eigen_probes |->
                          Arr([m \in 1..shared |-> RMean(Column(drawn, c, m))])])
        weights == Arr([p \in 1..N |->
                       Arr([c \in 1..num_eigen_probes |->
                           Arr([m \in 1..shared |->
                               LET w == RSub(drawn[p][c][m], mean_drawn[c][m])
                               IN  IF c = 1 THEN Rat(1, 1)
                                   ELSE IF m > pwm THEN unused_weights(w)
                                   ELSE w])])])
        eigen_probe == Arr([e \in 1..(num_eigen_probes - 1) |->
                           Arr([m \in 1..pwm |->
                               Over(noise[e][m], mnorm(noise[e][m]))])])
    IN  IF pwm > shared
        THEN [raised |-> "ValueError", eigen_probe |-> {}, weights |-> {}]
        ELSE IF num_eigen_probes < 1
        THEN [raised |-> "", eigen_probe |-> {}, weights |-> {}]
        ELSE IF num_eigen_probes = 1
        THEN [raised |-> "", eigen_probe |-> {}, weights |-> {weights}]
        ELSE [raised |-> "", eigen_probe |-> {eigen_probe},
              weights |-> {weights}]

\* constrain_variable_probe, lines 287-317, as a whole: the arrays of every
\* device after the first map (rescaled), after the sort of the second map
\* (sorted) and as returned
constrain_variable_probe(variable_probe, weights) ==
    LET devs == 1..Len(weights)
        returned(r1, r2) ==
            [variable_probe |-> Arr([d \in devs |-> r2[d].variable_probe]),
             weights |-> Arr([d \in devs |-> r2[d].weights]),
             rescaled |-> Arr([d \in devs |-> r1[d].weights]),
             sorted |-> Arr([d \in devs |-> r2[d].sorted])]
        second_map(r1, power) ==
            returned(r1, Arr([d \in devs |->
                        constrain_variable_probe2(r1[d].variable_probe,
                                                  r1[d].weights, power[d])]))
        reduce(r1) ==
            second_map(r1, reduced_power(Arr([d \in devs |-> r1[d].power])))
    IN  reduce(Arr([d \in devs |->
                   constrain_variable_probe1(variable_probe[d], weights[d])]))

\* update_eigen_probe, lines 376-475, as a whole: the exception that left
\* the call, if any, and the arrays of every device when the call ended
update_eigen_probe(eigen_probe, weights, inputs, beta, c, m) ==
    LET devs == 1..Len(weights)
        ended(u, g, w) ==
            IF \E d \in devs : u[d].raised # ""
            THEN [raised |-> "ValueError",
                  eigen_probe |-> eigen_probe, weights |-> weights]
            ELSE IF \E d \in devs : g[d].asserted
            THEN [raised |-> "AssertionError",
                  eigen_probe |-> Arr([d \in devs |-> g[d].eigen_probe]),
                  weights |-> weights]
            ELSE IF \E d \in devs : w[d].asserted
            THEN [raised |-> "AssertionError",
                  eigen_probe |-> Arr([d \in devs |-> g[d].eigen_probe]),
                  weights |-> Arr([d \in devs |->
                                  IF w[d].asserted THEN weights[d]
                                  ELSE w[d].weights])]
            ELSE [raised |-> "",
                  eigen_probe |-> Arr([d \in devs |-> g[d].eigen_probe]),
                  weights |-> Arr([d \in devs |-> w[d].weights])]
        third_map(u, g, d_mean) ==
            ended(u, g, Arr([d \in devs |->
                      get_weights_mean(g[d].n, g[d].d, d_mean[d], weights[d],
                                       inputs[d].batch, c, m)]))
        second_map(u, g) ==
            third_map(u, g, Allreduce_mean_bcast(
                                Arr([d \in devs |-> g[d].d_mean])))
        reduce(u, update) ==
            second_map(u, Arr([d \in devs |->
                          get_d(inputs[d].patches, inputs[d].diff,
                                eigen_probe[d], update[d], beta, c, m)]))
        first_map(u) ==
            reduce(u, Allreduce_mean_bcast(
                          Arr([d \in devs |-> u[d].update])))
    IN  first_map(Arr([d \in devs |->
                      get_update(inputs[d].R, eigen_probe[d], weights[d],
                                 inputs[d].batch, c, m)]))

\* the draws of np.random.rand over 4 positions, 3 columns and 2 modes (the
\* factor 1e-6 of line 699 is left out so that the exact arithmetic stays in
\* range): all 1/2, or 0 and 1/2 depending on position, column and mode
RandDraws ==
    {[p \in 1..4 |-> [c \in 1..3 |-> [m \in 1..2 |-> Rat(1, 2)]]],
     [p \in 1..4 |-> [c \in 1..3 |-> [m \in 1..2 |->
         Rat(((p + 1) \div c + m) % 2, 2)]]]}

\* the draws of tike.random.numpy_complex over 2 eigen probes, 2 modes and
\* fields of one pixel
NoiseDraws ==
    {[e \in 1..2 |-> [m \in 1..2 |-> <<Rat(IF e = m THEN 3 ELSE -1, 2)>>]]}

\* the inputs of update_eigen_probe on the devices: the batch of the first
\* device is its first j positions, that of the others all their positions;
\* R[k] = r * k, patches[k] = 1, diff[k] = 11/40 * k in the first mode and
\* 11/40 * (k + 1) in the second
SessionInputs(weights) ==
    {Arr([d \in 1..Len(weights) |->
         LET n == IF d = 1 THEN j ELSE Len(weights[d])
         IN  [batch |-> Arr([k \in 1..n |-> k]),
              R |-> Arr([k \in 1..n |-> <<Rat(r * k, 1)>>]),
              patches |-> Arr([k \in 1..n |-> <<Rat(1, 1)>>]),
              diff |-> Arr([k \in 1..n |->
                           <<<<Rat(11 * k, 40)>>, <<Rat(11 * (k + 1), 40)>>>>])]]) :
        j \in {1, Len(weights[1])}, r \in Residuals}

\* init_varying_probe is called on 4 scan positions and a shared probe of 2
\* modes; the weights returned are scattered over two devices, the first
\* half of the positions on the first, and the eigen probes are copied to
\* both
session_init ==
    /\ ss_pc = "none"
    /\ \E num_eigen_probes \in 1..3, modes \in 0..3,
          rand \in RandDraws, noise \in NoiseDraws :
          LET r == init_varying_probe(4, 2, num_eigen_probes, modes,
                                      rand, noise)
          IN  /\ ss_call' = {[num_eigen_probes |-> num_eigen_probes,
                              probes_with_modes |-> modes, shared |-> 2]}
              /\ ss_pc' = IF r.raised = "" THEN "ready" ELSE "raised"
              /\ ss_eigen_probe' =
                    IF r.eigen_probe = {} THEN <<>>
                    ELSE LET e == CHOOSE x \in r.eigen_probe : TRUE
                         IN  <<e, e>>
              /\ ss_weights' =
                    IF r.weights = {} THEN <<>>
                    ELSE LET w == CHOOSE x \in r.weights : TRUE
                         IN  <<SubSeq(w, 1, 2), SubSeq(w, 3, 4)>>
    /\ ss_trace' = <<>>
    /\ ss_last' = {}
    /\ UNCHANGED <<pd_vars, rs_vars, po_vars, pr_vars, fn_vars, sr_vars>>

\* a call of constrain_variable_probe on the arrays of the devices
session_constrain ==
    /\ ss_pc = "ready"
    /\ ss_eigen_probe # <<>>
    /\ Len(ss_trace) < MaxCalls
    /\ LET r == constrain_variable_probe(ss_eigen_probe, ss_weights)
       IN  /\ ss_eigen_probe' = r.variable_probe
           /\ ss_weights' = r.weights
           /\ ss_last' = {[rescaled |-> r.rescaled, sorted |-> r.sorted]}
    /\ ss_trace' = Append(ss_trace, "constrain_variable_probe")
    /\ UNCHANGED <<ss_pc, ss_call>>
    /\ UNCHANGED <<pd_vars, rs_vars, po_vars, pr_vars, fn_vars, sr_vars>>

\* a call of update_eigen_probe on the arrays of the devices, for an eigen
\* probe c and a mode m < probes_with_modes
session_update ==
    /\ ss_pc = "ready"
    /\ ss_eigen_probe # <<>>
    /\ Len(ss_trace) < MaxCalls
    /\ \E c \in 1..Len(ss_eigen_probe[1]),
          m \in 0..(probes_with_modes(ss_eigen_probe[1]) - 1),
          inputs \in SessionInputs(ss_weights) :
          LET r == update_eigen_probe(ss_eigen_probe, ss_weights, inputs,
                                      Rat(1, 10), c, m)
          IN  /\ ss_eigen_probe' = r.eigen_probe
              /\ ss_weights' = r.weights
              /\ ss_pc' = IF r.raised = "" THEN "ready" ELSE "raised"
    /\ ss_trace' = Append(ss_trace, "update_eigen_probe")
    /\ ss_last' = {}
    /\ UNCHANGED ss_call
    /\ UNCHANGED <<pd_vars, rs_vars, po_vars, pr_vars, fn_vars, sr_vars>>

InitSession == PdIdle /\ RsIdle /\ PoIdle /\ PrIdle /\ FnIdle /\ SsIdle /\ SrIdle

NextSession == session_init \/ session_constrain \/ session_update

SpecSession == InitSession /\ [][NextSession]_vars

---------------------------------------------------------------------------
\* the power of column c and mode m of the returned weights: the sum over
\* the positions of all devices of the squared weight
ReturnedPower(c, m) ==
    RSum(Arr([d \in 1..Len(pr_dev) |->
             norm2(Column(pr_dev[d].weights, c, m))]))

\* C27: when constrain_variable_probe has returned, for every varying
\* submode the power of the returned weight columns, summed over all
\* positions of all devices, does not increase from an eigen column to the
\* next.
C27_PowerDescendingAfterClipping ==
    ConstrainReturned =>
        \A call \in pr_call :
        \A m \in 1..probes_with_modes(call.variable_probe) :
        \A e \in 1..(Len(call.variable_probe) - 1) :
            ~RLess(ReturnedPower(e + 1, m), ReturnedPower(e + 2, m))

---------------------------------------------------------------------------
(***************************************************************************)
(* constrain_variable_probe on the same LongShard positions, once with all *)
(* positions on one device and once with the first k positions on one      *)
(* device and the others on a second device.                               *)
(***************************************************************************)
\* the columns of the weights of all positions
ScanColumns(n) == {Ones(n), Ramp(n), Spike(n), Flat(n)}

\* the two calls, for one choice of eigen probes, weights and k
sharded_call ==
    /\ fn_call = {}
    /\ \E variable_probe \in EigenStacks, k \in 1..(LongShard - 1) :
       \E a \in ScanColumns(LongShard), b \in ScanColumns(LongShard) :
          LET weights == ShardWeights(LongShard, a, b)
          IN  /\ fn_call' = {[fn |-> "constrain_variable_probe",
                              variable_probe |-> variable_probe,
                              weights |-> weights, k |-> k]}
              /\ fn_out' =
                    {[whole |-> constrain_variable_probe(
                                    <<variable_probe>>, <<weights>>),
                      parts |-> constrain_variable_probe(
                                    <<variable_probe, variable_probe>>,
                                    <<SubSeq(weights, 1, k),
                                      SubSeq(weights, k + 1, LongShard)>>)]}
    /\ UNCHANGED <<pd_vars, rs_vars, po_vars, pr_vars, ss_vars, sr_vars>>

InitSharded == PdIdle /\ RsIdle /\ PoIdle /\ PrIdle /\ FnIdle /\ SsIdle /\ SrIdle

NextSharded == sharded_call

SpecSharded == InitSharded /\ [][NextSharded]_vars

\* C30: the weights returned for the positions held by two devices are, row
\* for row, the weights returned when one device holds all positions, and
\* both devices return the eigen probes that the single device returns.
C30_IndependentOfSharding ==
    \A call \in fn_call, out \in fn_out :
        call.fn = "constrain_variable_probe" =>
            /\ out.parts.weights[1] \o out.parts.weights[2]
                  = out.whole.weights[1]
            /\ \A d \in 1..2 :
                  out.parts.variable_probe[d] = out.whole.variable_probe[1]

---------------------------------------------------------------------------
(***************************************************************************)
(* A PositionOptions of MaxRows + 1 positions is split over the devices    *)
(* along a partition of its indices and the shards are joined, in any      *)
(* order, into PositionOptions.empty(); x.insert(x.split(indices),         *)
(* indices) on the same object.  fn_out holds the object joined into and   *)
(* the devices joined so far.                                              *)
(***************************************************************************)
\* the arrays that list the elements of S once, in any order
Orderings(S) ==
    {ix \in [1..Cardinality(S) -> S] :
        \A i, j \in 1..Cardinality(S) : ix[i] = ix[j] => i = j}

\* the indices a device holds under the assignment f of indices to devices
Held(f, d) == {i \in DOMAIN f : f[i] = d}

InitGather ==
    /\ PdIdle
    /\ RsIdle
    /\ PrIdle
    /\ FnIdle
    /\ SsIdle
    /\ SrIdle
    /\ \E uam \in BOOLEAN :
          po_parent =
              [PositionOptions(Arr([i \in 1..(MaxRows + 1) |-> BasePoint(i)]),
                               uam, <<999, 1000>>, <<9, 10>>, TRUE, Identity)
               EXCEPT !.confidence = Arr([i \in 1..(MaxRows + 1) |->
                                            <<1 + (i % 2)>>]),
                      !.momentum = IF uam
                                   THEN {Arr([i \in 1..(MaxRows + 1) |->
                                                <<i, i, 0, 0>>])}
                                   ELSE {}]
    /\ po_shard = [d \in Devices |-> {}]
    /\ po_last = {}

\* split(indices) for the shard of every device that holds indices, and
\* empty() for the object the shards are joined into
gather_split ==
    /\ fn_out = {}
    /\ \E f \in [1..Len(po_parent.initial_scan) -> Devices] :
       \E ix \in [Devices -> UNION {Orderings(Held(f, d)) : d \in Devices}] :
          /\ \A d \in Devices : ix[d] \in Orderings(Held(f, d))
          /\ po_shard' = [d \in Devices |->
                            IF Held(f, d) = {} THEN {}
                            ELSE {[opts |-> split(po_parent, ix[d]),
                                   indices |-> ix[d]]}]
    /\ fn_call' = {[fn |-> "PositionOptions.empty"]}
    /\ fn_out' = {[new |-> empty(po_parent), order |-> <<>>]}
    /\ po_last' = {}
    /\ UNCHANGED po_parent
    /\ UNCHANGED <<pd_vars, rs_vars, pr_vars, ss_vars, sr_vars>>

\* new.join(shard, indices) for a shard that has not been joined yet
gather_join ==
    /\ \E r \in fn_out, d \in Devices, u \in Uninit :
       \E sh \in po_shard[d] :
          /\ \A k \in 1..Len(r.order) : r.order[k] # d
          /\ fn_out' = {[new |-> join(r.new, sh.opts, sh.indices, u),
                         order |-> Append(r.order, d)]}
          /\ po_last' = {[op |-> "join", device |-> d, indices |-> sh.indices,
                          uninit |-> u]}
    /\ UNCHANGED <<po_parent, po_shard, fn_call>>
    /\ UNCHANGED <<pd_vars, rs_vars, pr_vars, ss_vars, sr_vars>>

\* x.insert(x.split(indices), indices)
gather_insert ==
    /\ fn_out = {}
    /\ \E S \in SUBSET (1..Len(po_parent.initial_scan)) :
       \E indices \in Orderings(S) :
          /\ S # {}
          /\ po_parent' = insert(po_parent, split(po_parent, indices), indices)
          /\ po_last' = {[op |-> "insert", indices |-> indices,
                          before |-> po_parent]}
    /\ UNCHANGED <<po_shard, fn_call, fn_out>>
    /\ UNCHANGED <<pd_vars, rs_vars, pr_vars, ss_vars, sr_vars>>

NextGather == gather_split \/ gather_join \/ gather_insert

SpecGather == InitGather /\ [][NextGather]_vars

\* the devices that hold a shard
Sharded == {d \in Devices : po_shard[d] # {}}

\* C29: when the shards of a partition of the indices have all been joined
\* into empty(), in whatever order, the object joined into has the
\* initial_scan, the confidence and the momentum of the object that was
\* split, row for row; after x.insert(x.split(indices), indices), x is as it
\* was.
C29_SplitJoinReproduces ==
    /\ \A r \in fn_out :
          {r.order[k] : k \in 1..Len(r.order)} = Sharded =>
              /\ r.new.initial_scan = po_parent.initial_scan
              /\ r.new.confidence = po_parent.confidence
              /\ r.new.momentum = po_parent.momentum
    /\ \A L \in po_last : L.op = "insert" => po_parent = L.before

\* two shards with momentum have been joined; the first one joined holds the
\* last index, so that the rows before it were np.empty memory with other
\* values, and lists its indices in decreasing order
C29_Witness ==
    \E r \in fn_out :
        /\ Len(r.order) = 2
        /\ po_parent.momentum # {}
        /\ \E sh \in po_shard[r.order[1]] :
              /\ Len(sh.indices) = 2
              /\ sh.indices[1] = Len(po_parent.initial_scan)
              /\ sh.indices[2] < sh.indices[1]
        /\ \E L \in po_last : L.uninit.confidence[1] = <<7>>

\* ------------------------------------------------------------------------
\* stream_and_reduce (communicators/stream.py): the selected indices are cut
\* into chunks, every chunk is copied to a staging buffer and given to f on
\* one of the streams, and the results are summed.
\*
\* The host issues the work of a chunk to a stream and goes on; a stream
\* carries out the work issued to it in order (copy, call of f, addition to
\* its accumulator), at its own pace.  f is the caller's function; here it
\* returns the sum of the values it is given.

ChunkLimit == 64

MaxStreams == 3

\* the lengths of args[0]
StreamLengths == {1, 2, 64, 65, 129}

IndexKinds == {"None", "reversed", "even"}

IntMin(a, b) == IF a < b THEN a ELSE b

\* math.ceil(a / b) for positive integers
CeilDiv(a, b) == (a + b - 1) \div b

\* the values of args[0], all different
HostValues(L) == [i \in 1..L |-> 3 * i - 2]

\* the indices argument (0-based): None stands for range(len(args[0]))
SelectedIndices(kind, L) ==
    CASE kind = "None"     -> [j \in 1..L |-> j - 1]
      [] kind = "reversed" -> [j \in 1..L |-> L - j]
      [] kind = "even"     -> [j \in 1..((L + 1) \div 2) |-> 2 * (j - 1)]

f_sum(x_chunk) == SeqSum(x_chunk)

stream_index(s, num_streams) == s % num_streams

indices_chunk(indices, i, chunk_size) ==
    SubSeq(indices, i + 1, IntMin(i + chunk_size, Len(indices)))

\* every stream staging at the start of the buffer
buflo_shared(index, chunk_size) == 0

buflo(index, chunk_size) == index * chunk_size

bufhi(lo, chunk) == lo + Len(chunk)

StreamCall == CHOOSE c \in sr_call : TRUE

StreamsIdle == \A k \in DOMAIN sr_queue : sr_queue[k] = <<>>

\* lines 63-80: N, chunk_size, num_streams, the staging buffer (allocated
\* and not filled) and the zeroed accumulators
stream_call ==
    /\ sr_pc = "idle"
    /\ \E L \in StreamLengths, kind \in IndexKinds, streams \in 1..MaxStreams :
        LET indices == SelectedIndices(kind, L)
            N == Len(indices)
            chunk_size == IntMin(ChunkLimit, N)
            num_streams == IntMin(streams, CeilDiv(N, chunk_size))
        IN
        /\ sr_call' = {[x |-> HostValues(L), indices |-> indices,
                        streams |-> streams, N |-> N,
                        chunk_size |-> chunk_size,
                        num_streams |-> num_streams]}
        /\ sr_queue' = [k \in 1..streams |-> <<>>]
        /\ sr_buf' = [k \in 1..(num_streams * chunk_size) |-> -1]
        /\ sr_sums' = [k \in 1..num_streams |-> 0]
    /\ sr_s' = 0
    /\ sr_pc' = "loop"
    /\ sr_writes' = {}
    /\ sr_passed' = <<>>
    /\ sr_out' = {}
    /\ UNCHANGED <<pd_vars, rs_vars, po_vars, pr_vars, fn_vars, ss_vars>>

\* lines 82-101: one pass of the loop issues the copy, the call of f and the
\* addition for one chunk to the stream of the chunk
stream_enqueue ==
    /\ sr_pc = "loop"
    /\ sr_s * StreamCall.chunk_size < StreamCall.N
    /\ LET c == StreamCall
           i == sr_s * c.chunk_size
           index == stream_index(sr_s, c.num_streams)
           chunk == indices_chunk(c.indices, i, c.chunk_size)
           lo == buflo(index, c.chunk_size)
           hi == bufhi(lo, chunk)
       IN sr_queue' = [sr_queue EXCEPT ![index + 1] =
                          Append(@, [s |-> sr_s, chunk |-> chunk,
                                     buflo |-> lo, bufhi |-> hi,
                                     slot |-> index, phase |-> "copy",
                                     y |-> 0])]
    /\ sr_s' = sr_s + 1
    /\ UNCHANGED <<sr_pc, sr_call, sr_buf, sr_sums, sr_writes, sr_passed,
                   sr_out>>
    /\ UNCHANGED <<pd_vars, rs_vars, po_vars, pr_vars, fn_vars, ss_vars>>

\* a stream carries out the next piece of the work at the head of its queue:
\* the copy of lines 91-96, the call of line 98 or the addition of line 101
stream_run(k) ==
    /\ sr_pc \in {"loop", "sum", "returned"}
    /\ k \in DOMAIN sr_queue
    /\ sr_queue[k] # <<>>
    /\ LET c == StreamCall
           op == Head(sr_queue[k])
       IN
       CASE op.phase = "copy" ->
              /\ sr_buf' = [b \in DOMAIN sr_buf |->
                              IF op.buflo < b /\ b <= op.bufhi
                              THEN c.x[op.chunk[b - op.buflo] + 1]
                              ELSE sr_buf[b]]
              /\ sr_writes' = sr_writes \cup
                     {[stream |-> k - 1, kind |-> "args_gpu", s |-> op.s,
                       lo |-> op.buflo, hi |-> op.bufhi, chunk |-> op.chunk]}
              /\ sr_queue' = [sr_queue EXCEPT ![k][1].phase = "call"]
              /\ UNCHANGED <<sr_sums, sr_passed>>
         [] op.phase = "call" ->
              LET x_chunk == SubSeq(sr_buf, op.buflo + 1, op.bufhi)
              IN
              /\ sr_passed' = sr_passed \o x_chunk
              /\ sr_queue' = [sr_queue EXCEPT ![k][1].phase = "add",
                                              ![k][1].y = f_sum(x_chunk)]
              /\ UNCHANGED <<sr_buf, sr_sums, sr_writes>>
         [] op.phase = "add" ->
              /\ sr_sums' = [sr_sums EXCEPT ![op.slot + 1] = @ + op.y]
              /\ sr_writes' = sr_writes \cup
                     {[stream |-> k - 1, kind |-> "y_sums", s |-> op.s,
                       lo |-> op.slot, hi |-> op.slot + 1,
                       chunk |-> op.chunk]}
              /\ sr_queue' = [sr_queue EXCEPT ![k] = Tail(@)]
              /\ UNCHANGED <<sr_buf, sr_passed>>
    /\ UNCHANGED <<sr_pc, sr_call, sr_s, sr_out>>
    /\ UNCHANGED <<pd_vars, rs_vars, po_vars, pr_vars, fn_vars, ss_vars>>

\* line 107: the host waits until every stream has finished its work
stream_synchronize ==
    /\ sr_pc = "loop"
    /\ sr_s * StreamCall.chunk_size >= StreamCall.N
    /\ StreamsIdle
    /\ sr_pc' = "sum"
    /\ UNCHANGED <<sr_call, sr_s, sr_queue, sr_buf, sr_sums, sr_writes,
                   sr_passed, sr_out>>
    /\ UNCHANGED <<pd_vars, rs_vars, po_vars, pr_vars, fn_vars, ss_vars>>

\* lines 109-113: the accumulators are summed over the streams and returned
stream_return ==
    /\ sr_pc = "sum"
    /\ sr_out' = {[y |-> SeqSum(sr_sums), pending |-> ~StreamsIdle]}
    /\ sr_pc' = "returned"
    /\ UNCHANGED <<sr_call, sr_s, sr_queue, sr_buf, sr_sums, sr_writes,
                   sr_passed>>
    /\ UNCHANGED <<pd_vars, rs_vars, po_vars, pr_vars, fn_vars, ss_vars>>

InitStream == PdIdle /\ RsIdle /\ PoIdle /\ PrIdle /\ FnIdle /\ SsIdle /\ SrIdle

NextStream ==
    \/ stream_call
    \/ stream_enqueue
    \/ \E k \in 1..MaxStreams : stream_run(k)
    \/ stream_synchronize
    \/ stream_return

SpecStream == InitStream /\ [][NextStream]_vars

\* the sum over the selected indices, one chunk after the other
ChunkedSum(c) ==
    SeqSum([s \in 1..CeilDiv(c.N, ChunkLimit) |->
               f_sum([j \in 1..(IntMin(s * ChunkLimit, c.N)
                                  - (s - 1) * ChunkLimit) |->
                         c.x[c.indices[(s - 1) * ChunkLimit + j] + 1]])])

===========================================================================
